---- MODULE Spec2Model ----
(***************************************************************************)
(* Custom-domain workflow of the tokly backend: project creation, Attach,  *)
(* Verify and Remove of a custom domain, against the project store         *)
(* (Mongoose) and the domain registrar (Vercel project-domain API).        *)
(* Strings are sequences of one-character strings, so that lower-casing,   *)
(* trimming and the domain regular expression are computed, not assumed.   *)
(***************************************************************************)
EXTENDS Integers, Sequences, FiniteSets, TLC

(* ---------------------------------------------------------------------- *)
(* Characters and strings                                                  *)
(* ---------------------------------------------------------------------- *)

UpperChars ==
    <<"A","B","C","D","E","F","G","H","I","J","K","L","M","N","O","P","Q","R","S","T","U","V","W","X","Y","Z">>

LowerChars ==
    <<"a","b","c","d","e","f","g","h","i","j","k","l","m","n","o","p","q","r","s","t","u","v","w","x","y","z">>

DigitChars ==
    <<"0","1","2","3","4","5","6","7","8","9">>

Range(s) == {s[i] : i \in DOMAIN s}

UpperSet == Range(UpperChars)

LowerSet == Range(LowerChars)

DigitSet == Range(DigitChars)

IsUpper(c) == c \in UpperSet

IsLower(c) == c \in LowerSet

IsDigit(c) == c \in DigitSet

\* [a-zA-Z0-9]
IsAlnum(c) == IsUpper(c) \/ IsLower(c) \/ IsDigit(c)

\* String.prototype.toLowerCase, one character
ToLowerChar(c) ==
    IF IsUpper(c)
    THEN LowerChars[CHOOSE i \in DOMAIN UpperChars : UpperChars[i] = c]
    ELSE c

\* String.prototype.toLowerCase
toLowerCase(s) == [i \in DOMAIN s |-> ToLowerChar(s[i])]

IsSpace(c) == c = " "

RECURSIVE TrimLeft(_)
TrimLeft(s) ==
    IF s # << >> /\ IsSpace(Head(s)) THEN TrimLeft(Tail(s)) ELSE s

RECURSIVE TrimRight(_)
TrimRight(s) ==
    IF s # << >> /\ IsSpace(s[Len(s)])
    THEN TrimRight(SubSeq(s, 1, Len(s) - 1))
    ELSE s

\* String.prototype.trim
trim(s) == TrimRight(TrimLeft(s))

\* String.prototype.split(sep) for a one-character separator: the part
\* before the first separator, then the parts of what follows it
RECURSIVE split(_, _)
split(s, sep) ==
    IF \A i \in DOMAIN s : s[i] # sep THEN <<s>>
    ELSE LET k == CHOOSE i \in DOMAIN s :
                      s[i] = sep /\ \A j \in 1..(i - 1) : s[j] # sep
         IN  <<SubSeq(s, 1, k - 1)>> \o split(SubSeq(s, k + 1, Len(s)), sep)

(* ---------------------------------------------------------------------- *)
(* VercelService.validateDomain                                            *)
(* ---------------------------------------------------------------------- *)

MaxLabelInner == 61

MaxDomainLength == 253

\* one label of domainRegex: [a-zA-Z0-9]([a-zA-Z0-9-]{0,61}[a-zA-Z0-9])?
LabelMatches(l) ==
    /\ Len(l) >= 1
    /\ Len(l) <= MaxLabelInner + 2
    /\ IsAlnum(l[1])
    /\ IsAlnum(l[Len(l)])
    /\ \A i \in DOMAIN l : IsAlnum(l[i]) \/ l[i] = "-"

\* domainRegex.test(domain): a label, then any number of "." label
domainRegexTest(s) ==
    \A l \in Range(split(s, ".")) : LabelMatches(l)

reservedDomains == {
    <<"l","o","c","a","l","h","o","s","t">>,
    <<"v","e","r","c","e","l",".","a","p","p">>,
    <<"v","e","r","c","e","l",".","c","o","m">>,
    <<"n","o","w",".","s","h">>,
    <<"a","m","a","z","o","n","a","w","s",".","c","o","m">>,
    <<"c","l","o","u","d","f","r","o","n","t",".","n","e","t">>,
    <<"h","e","r","o","k","u","a","p","p",".","c","o","m">>,
    <<"n","e","t","l","i","f","y",".","a","p","p">>,
    <<"g","i","t","h","u","b",".","i","o">>,
    <<"g","i","t","l","a","b",".","i","o">>,
    <<"f","i","r","e","b","a","s","e","a","p","p",".","c","o","m">>,
    <<"a","p","p","s","p","o","t",".","c","o","m">>,
    <<"a","z","u","r","e","w","e","b","s","i","t","e","s",".","n","e","t">>,
    <<"h","e","r","o","k","u",".","c","o","m">>,
    <<"h","e","r","o","k","u","a","p","p",".","c","o","m">>,
    <<"r","a","i","l","w","a","y",".","a","p","p">>,
    <<"r","e","n","d","e","r",".","c","o","m">>,
    <<"s","u","p","a","b","a","s","e",".","c","o">>,
    <<"s","u","p","a","b","a","s","e",".","i","n">>,
    <<"s","u","p","a","b","a","s","e",".","i","o">>,
    <<"s","u","p","a","b","a","s","e",".","c","o","m">>,
    <<"p","l","a","n","e","t","s","c","a","l","e",".","c","o","m">>,
    <<"n","e","o","n",".","t","e","c","h">>,
    <<"c","o","c","k","r","o","a","c","h","l","a","b","s",".","c","l","o","u","d">>,
    <<"m","o","n","g","o","d","b",".","c","o","m">>,
    <<"m","o","n","g","o","d","b",".","n","e","t">>,
    <<"r","e","d","i","s",".","c","o","m">>,
    <<"r","e","d","i","s",".","i","o">>,
    <<"r","e","d","i","s",".","n","e","t">>,
    <<"r","e","d","i","s",".","o","r","g">>,
    <<"r","e","d","i","s",".","d","e","v">>,
    <<"r","e","d","i","s",".","t","e","c","h">>,
    <<"r","e","d","i","s",".","c","l","o","u","d">>,
    <<"r","e","d","i","s",".","l","a","b","s">>,
    <<"r","e","d","i","s",".","e","n","t","e","r","p","r","i","s","e">>,
    <<"r","e","d","i","s",".","i","n","c">>,
    <<"r","e","d","i","s",".","i","o">>,
    <<"r","e","d","i","s",".","n","e","t">>,
    <<"r","e","d","i","s",".","o","r","g">>,
    <<"r","e","d","i","s",".","d","e","v">>,
    <<"r","e","d","i","s",".","t","e","c","h">>,
    <<"r","e","d","i","s",".","c","l","o","u","d">>,
    <<"r","e","d","i","s",".","l","a","b","s">>,
    <<"r","e","d","i","s",".","e","n","t","e","r","p","r","i","s","e">>,
    <<"r","e","d","i","s",".","i","n","c">>,
    <<"t","o","k","l","y",".","i","o">>
}

ErrRequired == "Domain is required"

ErrFormat == "Invalid domain format"

ErrTooLong == "Domain is too long"

ErrReserved == "This domain is reserved and cannot be used"

ErrReservedTld == "This TLD is reserved and cannot be used"

\* mutant: the length is not checked
validateDomain_NoLength(domain) ==
    LET domainParts == split(toLowerCase(domain), ".")
        tld == domainParts[Len(domainParts)]
    IN  IF domain = << >> \/ Len(trim(domain)) = 0
        THEN [isValid |-> FALSE, error |-> ErrRequired]
        ELSE IF ~domainRegexTest(domain)
        THEN [isValid |-> FALSE, error |-> ErrFormat]
        ELSE IF toLowerCase(domain) \in reservedDomains
        THEN [isValid |-> FALSE, error |-> ErrReserved]
        ELSE IF tld \in reservedDomains
        THEN [isValid |-> FALSE, error |-> ErrReservedTld]
        ELSE [isValid |-> TRUE, error |-> ""]

\* mutant: the denylist is compared without lowercasing
validateDomain_CaseSensitive(domain) ==
    LET domainParts == split(domain, ".")
        tld == domainParts[Len(domainParts)]
    IN  IF domain = << >> \/ Len(trim(domain)) = 0
        THEN [isValid |-> FALSE, error |-> ErrRequired]
        ELSE IF ~domainRegexTest(domain)
        THEN [isValid |-> FALSE, error |-> ErrFormat]
        ELSE IF Len(domain) > MaxDomainLength
        THEN [isValid |-> FALSE, error |-> ErrTooLong]
        ELSE IF domain \in reservedDomains
        THEN [isValid |-> FALSE, error |-> ErrReserved]
        ELSE IF tld \in reservedDomains
        THEN [isValid |-> FALSE, error |-> ErrReservedTld]
        ELSE [isValid |-> TRUE, error |-> ""]

\* VercelService.validateDomain(domain)
validateDomain(domain) ==
    LET domainParts == split(toLowerCase(domain), ".")
        tld == domainParts[Len(domainParts)]
    IN  IF domain = << >> \/ Len(trim(domain)) = 0
        THEN [isValid |-> FALSE, error |-> ErrRequired]
        ELSE IF ~domainRegexTest(domain)
        THEN [isValid |-> FALSE, error |-> ErrFormat]
        ELSE IF Len(domain) > MaxDomainLength
        THEN [isValid |-> FALSE, error |-> ErrTooLong]
        ELSE IF toLowerCase(domain) \in reservedDomains
        THEN [isValid |-> FALSE, error |-> ErrReserved]
        ELSE IF tld \in reservedDomains
        THEN [isValid |-> FALSE, error |-> ErrReservedTld]
        ELSE [isValid |-> TRUE, error |-> ""]

(* ---------------------------------------------------------------------- *)
(* projectService.sanitizeSubdomain                                        *)
(* ---------------------------------------------------------------------- *)

MaxSubdomainLength == 50

IsSubdomainChar(c) == IsLower(c) \/ IsDigit(c) \/ c = "-"

RECURSIVE StripLeadingHyphens(_)
StripLeadingHyphens(s) ==
    IF s # << >> /\ Head(s) = "-" THEN StripLeadingHyphens(Tail(s)) ELSE s

RECURSIVE StripTrailingHyphens(_)
StripTrailingHyphens(s) ==
    IF s # << >> /\ s[Len(s)] = "-"
    THEN StripTrailingHyphens(SubSeq(s, 1, Len(s) - 1))
    ELSE s

substring(s, n) == IF Len(s) > n THEN SubSeq(s, 1, n) ELSE s

sanitizeSubdomain(projectName) ==
    substring(
        StripTrailingHyphens(StripLeadingHyphens(
            SelectSeq(toLowerCase(projectName), IsSubdomainChar))),
        MaxSubdomainLength)

(* ---------------------------------------------------------------------- *)
(* Bounds and inputs                                                       *)
(* ---------------------------------------------------------------------- *)

\* documents the store may hold
MaxProjects == 2

\* requests started in one behaviour
MaxOps == 3

\* changes made by the environment (registrar verification, DNS, store)
MaxEnv == 1

\* request slots (handlers in flight at the same time)
MaxReqs == 2

MaxProjectNameLength == 50

ProjectIds == 1 .. MaxProjects

Reqs == 1 .. MaxReqs

\* absent field (undefined) and null: neither is a string
Undefined == <<"undefined">>

Null == <<"null">>

\* the empty or missing string of a request body (falsy)
NoStr == << >>

DomA == <<"a",".","c">>

DomAUpper == <<"A",".","c">>

DomB == <<"b",".","c">>

DomBad == <<"-","a">>

\* the project id that is missing from a request (falsy)
NoPid == 0

\* domain strings an Attach request may carry
AttachDomains == {DomA, DomB, DomBad}

\* domain strings a Verify or Remove request may carry
DomainInputs == {DomA, DomB}

\* custom domains a project-creation request may carry
CreateDomainInputs == {DomA, DomBad, NoStr}

\* project names a project-creation request may carry
NameInputs == {<<"p">>, <<"P","!">>, <<"q">>, <<"!">>}

\* the <<project id, domain>> pairs a request may carry: every project id
\* with every domain string of ds, and the missing domain and the missing
\* id once each
RequestInputs(ds) ==
    ((1 .. MaxProjects) \X ds) \cup {<<1, NoStr>>, <<NoPid, DomA>>}

Ns1Vercel == <<"n","s","1",".","v","e","r","c","e","l","-","d","n","s",".","c","o","m">>

Ns2Vercel == <<"n","s","2",".","v","e","r","c","e","l","-","d","n","s",".","c","o","m">>

Ns1VercelUpper == <<"N","S","1",".","V","e","r","c","e","l","-","D","N","S",".","c","o","m">>

NsOther == <<"n","s","1",".","o","t","h","e","r",".","c","o","m">>

\* VercelService.checkDomainVerificationStatus: vercelNameservers
vercelNameservers == <<Ns1Vercel, Ns2Vercel>>

\* answers of dns.resolveNs: an error, or a non-empty list of host names
DnsAnswers == {
    [ok |-> FALSE, ns |-> << >>],
    [ok |-> TRUE, ns |-> <<NsOther>>],
    [ok |-> TRUE, ns |-> <<Ns1VercelUpper, NsOther>>],
    [ok |-> TRUE, ns |-> <<Ns1Vercel, Ns2Vercel>>]
}

\* names the registrar can hold: it stores names in lower case and refuses
\* a name that is not a host name
RegNames ==
    {toLowerCase(d) : d \in {x \in AttachDomains \cup DomainInputs
                                        \cup CreateDomainInputs :
                                 x # NoStr /\ domainRegexTest(x)}}

(* ---------------------------------------------------------------------- *)
(* State                                                                   *)
(* ---------------------------------------------------------------------- *)

VARIABLES
    projects,        \* the Project collection: id -> document
    nextId,          \* the id the next inserted document gets
    registrar,       \* the registrar's project domains: name -> state
    dns,             \* what dns.resolveNs answers for a name
    stripUndefined,  \* the build's Mongoose drops undefined keys of an update
    req,             \* the handlers in flight: slot -> request record
    opsStarted,      \* requests started so far
    envEpoch         \* changes the environment has made so far

vars == <<projects, nextId, registrar, dns, stripUndefined, req, opsStarted,
          envEpoch>>

NoProject ==
    [exists |-> FALSE, subdomain |-> NoStr, customDomain |-> Undefined,
     domainStatus |-> "pending"]

NoCheck ==
    [status |-> 0, threw |-> FALSE, verified |-> FALSE, verification |-> << >>,
     usingVercelDNS |-> FALSE, misconfigured |-> FALSE]

\* what isDomainAvailable made of the registrar's answer, before it is called
NoAvail == [status |-> 0, threw |-> FALSE, value |-> FALSE]

NoAnswer == [ok |-> FALSE, ns |-> << >>]

\* no setup information fetched
NoSetup ==
    [called |-> FALSE, threw |-> FALSE, fetched |-> FALSE, verified |-> FALSE,
     verification |-> << >>, dnsRecords |-> << >>]

IdleReq ==
    [kind |-> "none", pc |-> "idle", pid |-> 0, domain |-> NoStr,
     name |-> NoStr, useCustom |-> FALSE, snap |-> NoProject,
     avail |-> NoAvail, addOk |-> FALSE, removeOk |-> FALSE, chk |-> NoCheck,
     ans |-> NoAnswer, regCalls |-> {}, code |-> 0,
     err |-> "", msg |-> "", e0 |-> 0, e1 |-> 0, post |-> NoProject,
     follows |-> "no", setup |-> NoSetup]

Init ==
    /\ projects = [p \in ProjectIds |-> NoProject]
    /\ nextId = 1
    /\ registrar = [n \in RegNames |-> "absent"]
    /\ dns = [n \in RegNames |-> [ok |-> TRUE, ns |-> <<NsOther>>]]
    /\ stripUndefined \in BOOLEAN
    /\ req = [r \in Reqs |-> IdleReq]
    /\ opsStarted = 0
    /\ envEpoch = 0

(* ---------------------------------------------------------------------- *)
(* Project store (Mongoose model Project)                                  *)
(* ---------------------------------------------------------------------- *)

\* the setters of the customDomain path: lowercase, trim
castCustomDomain(d) == toLowerCase(trim(d))

\* Project.findById
getProjectById(projs, id) ==
    IF id \in ProjectIds /\ projs[id].exists THEN projs[id] ELSE NoProject

\* Project.findOne({ subdomain }): the path lower-cases and trims the filter
existsSubdomain(projs, sub, self) ==
    \E p \in ProjectIds :
        /\ p # self
        /\ projs[p].exists
        /\ projs[p].subdomain = toLowerCase(trim(sub))

\* Project.findOne({ customDomain }): the path lower-cases and trims the filter
existsCustomDomain(projs, d, self) ==
    \E p \in ProjectIds :
        /\ p # self
        /\ projs[p].exists
        /\ projs[p].customDomain = castCustomDomain(d)

\* projectService.isCustomDomainAvailable
isCustomDomainAvailable(projs, d) == ~existsCustomDomain(projs, d, 0)

\* projectService.isSubdomainAvailable
isSubdomainAvailable(projs, name) ==
    ~existsSubdomain(projs, sanitizeSubdomain(name), 0)

\* the value an update leaves in customDomain: an undefined key is dropped
\* from the update by Mongoose 6 and later, and written as null before
castUpdateCustomDomain(old, d, strip) ==
    IF d = Undefined
    THEN (IF strip THEN old ELSE Null)
    ELSE castCustomDomain(d)

\* projectService.updateProject with { customDomain, domainStatus }:
\* Project.findByIdAndUpdate(id, updates, { new: true })
updateProject(projs, id, d, status, strip) ==
    IF id \in ProjectIds /\ projs[id].exists
    THEN [projs EXCEPT ![id].customDomain =
                           castUpdateCustomDomain(@, d, strip),
                       ![id].domainStatus = status]
    ELSE projs

\* projectService.updateDomainStatus
updateDomainStatus(projs, id, status) ==
    IF id \in ProjectIds /\ projs[id].exists
    THEN [projs EXCEPT ![id].domainStatus = status]
    ELSE projs

(* ---------------------------------------------------------------------- *)
(* Registrar client (VercelService) and the registrar behind it            *)
(* ---------------------------------------------------------------------- *)

regHas(reg, d) ==
    toLowerCase(d) \in RegNames /\ reg[toLowerCase(d)] # "absent"

\* the message of the registrar's 404 for a name the project does not hold
MsgNotFound == "Project Domain not found"

\* the message of any other error response of the registrar
MsgUpstream == "upstream error message"

\* error.message.includes("not_found") || includes("Project Domain not found")
includesNotFound(m) == m = MsgNotFound

\* the challenges the registrar lists for a name it has not verified yet
pendingVerification == <<"TXT">>

\* VercelService.getDomain, and the same fetch made by
\* checkDomainVerificationStatus: fault is a failure that is not a 404
getDomain(reg, d, fault) ==
    IF fault
    THEN [ok |-> FALSE, status |-> 500, verified |-> FALSE,
          verification |-> << >>, message |-> MsgUpstream]
    ELSE IF regHas(reg, d)
    THEN [ok |-> TRUE, status |-> 200,
          verified |-> reg[toLowerCase(d)] = "verified",
          verification |-> IF reg[toLowerCase(d)] = "verified" THEN << >>
                           ELSE pendingVerification,
          message |-> ""]
    ELSE [ok |-> FALSE, status |-> 404, verified |-> FALSE,
          verification |-> << >>, message |-> MsgNotFound]

\* mutant: every failed fetch is taken to mean that the name is free
isDomainAvailable_AnyFailure(reg, d, fault) ==
    LET g == getDomain(reg, d, fault)
    IN  [status |-> g.status, threw |-> FALSE, value |-> ~g.ok]

\* VercelService.isDomainAvailable
isDomainAvailable(reg, d, fault) ==
    LET g == getDomain(reg, d, fault)
    IN  IF g.ok THEN [status |-> g.status, threw |-> FALSE, value |-> FALSE]
        ELSE IF g.status = 404 \/ includesNotFound(g.message)
        THEN [status |-> g.status, threw |-> FALSE, value |-> TRUE]
        ELSE [status |-> g.status, threw |-> TRUE, value |-> FALSE]

\* mutant: the registrar accepts a name it already holds
addDomainOk_Idempotent(reg, d, fault) ==
    ~fault /\ toLowerCase(d) \in RegNames

\* VercelService.addDomain: the registrar refuses a name it already holds and
\* a name that is not a host name
addDomainOk(reg, d, fault) ==
    ~fault /\ toLowerCase(d) \in RegNames /\ ~regHas(reg, d)

addDomain(reg, d, fault) ==
    IF addDomainOk(reg, d, fault)
    THEN [reg EXCEPT ![toLowerCase(d)] = "unverified"]
    ELSE reg

\* VercelService.removeDomain: deleting a name the registrar does not hold
\* is a 404, which throws like any other failure
removeDomainOk(reg, d, fault) == ~fault /\ regHas(reg, d)

removeDomain(reg, d, fault) ==
    IF removeDomainOk(reg, d, fault)
    THEN [reg EXCEPT ![toLowerCase(d)] = "absent"]
    ELSE reg

\* one record of the nameserver configuration
NsRecord(value) ==
    [type |-> "NS", name |-> "@", value |-> value, reason |-> "Vercel nameserver"]

\* VercelService.getDomainSetupInfo: vercelNameservers of the try block
setupNameservers == <<NsRecord(Ns1Vercel), NsRecord(Ns2Vercel)>>

\* VercelService.getDomainSetupInfo: vercelNameservers of the catch block
fallbackNameservers == <<NsRecord(Ns1Vercel), NsRecord(Ns2Vercel)>>

\* mutant: a failed fetch is raised to the caller
getDomainSetupInfo_Raises(g) ==
    IF g.ok
    THEN [called |-> TRUE, threw |-> FALSE, fetched |-> TRUE,
          verified |-> FALSE, verification |-> g.verification,
          dnsRecords |-> setupNameservers]
    ELSE [called |-> TRUE, threw |-> TRUE, fetched |-> FALSE,
          verified |-> FALSE, verification |-> << >>, dnsRecords |-> << >>]

\* VercelService.getDomainSetupInfo(domain) on the answer g of getDomain
getDomainSetupInfo(g) ==
    IF g.ok
    THEN [called |-> TRUE, threw |-> FALSE, fetched |-> TRUE,
          verified |-> FALSE, verification |-> g.verification,
          dnsRecords |-> setupNameservers]
    ELSE [called |-> TRUE, threw |-> FALSE, fetched |-> FALSE,
          verified |-> FALSE, verification |-> << >>,
          dnsRecords |-> fallbackNameservers]

\* VercelService.verifyDomain: the trigger; it fails on a name not held
verifyDomainOk(reg, d, fault) == ~fault /\ regHas(reg, d)

\* nameservers.some(ns => vercelNameservers.includes(ns.toLowerCase()))
someVercelNameserver(ns) ==
    \E i \in DOMAIN ns : toLowerCase(ns[i]) \in Range(vercelNameservers)

\* mutant: the nameservers are looked up whatever the registrar's flag
checkDomainVerificationStatus_NoVerifiedGuard(g, ans) ==
    IF g.ok
    THEN [NoCheck EXCEPT !.status = g.status,
                         !.verified = g.verified,
                         !.verification = g.verification,
                         !.usingVercelDNS =
                             IF ans.ok THEN someVercelNameserver(ans.ns)
                             ELSE FALSE]
    ELSE IF g.status = 404
    THEN [NoCheck EXCEPT !.status = g.status]
    ELSE [NoCheck EXCEPT !.status = g.status, !.threw = TRUE]

\* mutant: a registrar 404 is raised like any other failure
checkDomainVerificationStatus_NotFoundThrows(g, ans) ==
    IF g.ok
    THEN [NoCheck EXCEPT !.status = g.status,
                         !.verified = g.verified,
                         !.verification = g.verification,
                         !.usingVercelDNS =
                             IF g.verified
                             THEN (IF ans.ok THEN someVercelNameserver(ans.ns)
                                   ELSE FALSE)
                             ELSE FALSE]
    ELSE [NoCheck EXCEPT !.status = g.status, !.threw = TRUE]

\* mutant: a failed nameserver lookup is raised out of the check
checkDomainVerificationStatus_DnsThrows(g, ans) ==
    IF g.ok
    THEN (IF g.verified /\ ~ans.ok
          THEN [NoCheck EXCEPT !.status = g.status, !.threw = TRUE]
          ELSE [NoCheck EXCEPT !.status = g.status,
                               !.verified = g.verified,
                               !.verification = g.verification,
                               !.usingVercelDNS =
                                   g.verified /\ someVercelNameserver(ans.ns)])
    ELSE IF g.status = 404
    THEN [NoCheck EXCEPT !.status = g.status]
    ELSE [NoCheck EXCEPT !.status = g.status, !.threw = TRUE]

\* VercelService.checkDomainVerificationStatus, from the registrar's answer
\* and the answer of dns.resolveNs
checkDomainVerificationStatus(g, ans) ==
    IF g.ok
    THEN [NoCheck EXCEPT !.status = g.status,
                         !.verified = g.verified,
                         !.verification = g.verification,
                         !.usingVercelDNS =
                             IF g.verified
                             THEN (IF ans.ok THEN someVercelNameserver(ans.ns)
                                   ELSE FALSE)
                             ELSE FALSE]
    ELSE IF g.status = 404
    THEN [NoCheck EXCEPT !.status = g.status]
    ELSE [NoCheck EXCEPT !.status = g.status, !.threw = TRUE]

\* dns.resolveNs(domain)
dnsAnswer(d) ==
    IF toLowerCase(d) \in RegNames THEN dns[toLowerCase(d)]
    ELSE [ok |-> FALSE, ns |-> << >>]

(* ---------------------------------------------------------------------- *)
(* Requests                                                                *)
(* ---------------------------------------------------------------------- *)

Running(r) == req[r].pc \notin {"idle", "done"}

\* a new request takes the lowest slot that is not running
FreeSlot(r) ==
    /\ ~Running(r)
    /\ \A q \in Reqs : q < r => Running(q)

\* requests are handled one at a time
Solo == \A q \in Reqs : ~Running(q)

\* how a new request relates to the request answered before it in its slot:
\* "same" when that one was answered 200, was of the same kind for the same
\* project and domain string, and the environment has not moved since that
\* one started;
\* "other" when only the project differs;
\* "retry" when that one was a Remove of the same project and domain string
\* that was answered 500 after its registrar removal had succeeded;
\* "attached" when this is a Verify or Remove and that one was an Attach of
\* the same project and domain string answered 200
Follows(old, kind, pid, domain) ==
    IF /\ old.pc = "done"
       /\ old.kind = kind
       /\ old.domain = domain
       /\ old.code = 200
       /\ old.e0 = envEpoch
       /\ old.e1 = envEpoch
    THEN (IF old.pid = pid THEN "same" ELSE "other")
    ELSE IF /\ old.pc = "done"
            /\ kind = "remove"
            /\ old.kind = kind
            /\ old.domain = domain
            /\ old.pid = pid
            /\ old.code = 500
            /\ old.removeOk
            /\ old.e0 = envEpoch
            /\ old.e1 = envEpoch
    THEN "retry"
    ELSE IF /\ old.pc = "done"
            /\ kind \in {"verify", "remove"}
            /\ old.kind = "attach"
            /\ old.domain = domain
            /\ old.pid = pid
            /\ old.code = 200
            /\ old.e0 = envEpoch
            /\ old.e1 = envEpoch
    THEN "attached"
    ELSE "no"

NewReq(r, kind, pid, domain, name, useCustom) ==
    [IdleReq EXCEPT !.kind = kind, !.pc = "start", !.pid = pid,
                    !.domain = domain, !.name = name,
                    !.useCustom = useCustom, !.e0 = envEpoch,
                    !.follows = Follows(req[r], kind, pid, domain)]

\* res.status(code).json({ success: false, error, message })
Answer(q, code, err, msg) ==
    [q EXCEPT !.pc = "done", !.code = code, !.err = err, !.msg = msg]

\* the request record q replaces slot r; an answered request records the
\* epoch and the project document it leaves behind
Commit(r, q, projs) ==
    IF q.pc = "done"
    THEN req' = [req EXCEPT ![r] = [q EXCEPT !.e1 = envEpoch,
                                             !.post = getProjectById(projs, q.pid)]]
    ELSE req' = [req EXCEPT ![r] = q]

(* ---------------------------------------------------------------------- *)
(* POST /api/projects: ProjectController.createProject and                 *)
(* projectService.createProject                                            *)
(* ---------------------------------------------------------------------- *)

\* data.useCustomDomain && data.customDomain
useCustomDomain(q) == q.useCustom /\ q.domain # NoStr

\* the controller's own sanitizing of the name: no length limit
controllerSanitize(name) ==
    StripTrailingHyphens(StripLeadingHyphens(
        SelectSeq(toLowerCase(name), IsSubdomainChar)))

\* the controller's checks and its isSubdomainAvailable read
CreateStart(r, name, useCustom, custom) ==
    /\ FreeSlot(r)
    /\ opsStarted < MaxOps
    /\ nextId <= MaxProjects
    /\ opsStarted' = opsStarted + 1
    /\ LET q0 == NewReq(r, "create", 0, trim(custom), trim(name), useCustom)
           q == IF name = NoStr
                THEN Answer(q0, 400, "Missing required fields",
                            "Project name and emoji are required")
                ELSE IF Len(trim(name)) = 0
                THEN Answer(q0, 400, "Invalid project name",
                            "Project name must be a non-empty string")
                ELSE IF controllerSanitize(name) = NoStr
                THEN Answer(q0, 400, "Invalid project name",
                            "Project name must contain at least one valid character")
                ELSE IF ~isSubdomainAvailable(projects, name)
                THEN Answer(q0, 409, "Project name already taken",
                            "This project name is already in use")
                ELSE [q0 EXCEPT !.pc = "cSvcSub"]
       IN  Commit(r, q, projects)
    /\ UNCHANGED <<projects, nextId, registrar, dns, stripUndefined, envEpoch>>

\* projectService.createProject: sanitize, then Project.findOne({ subdomain })
CreateSvcSub(r) ==
    /\ req[r].pc = "cSvcSub"
    /\ LET q0 == req[r]
           sub == sanitizeSubdomain(q0.name)
           q == IF sub = NoStr
                THEN Answer(q0, 400, "Invalid project name",
                            "Project name must contain at least one valid character")
                ELSE IF existsSubdomain(projects, sub, 0)
                THEN Answer(q0, 409, "Project name already taken",
                            "This project name is already in use")
                ELSE IF useCustomDomain(q0)
                THEN [q0 EXCEPT !.pc = "cSvcCustom"]
                ELSE [q0 EXCEPT !.pc = "cSave"]
       IN  Commit(r, q, projects)
    /\ UNCHANGED <<projects, nextId, registrar, dns, stripUndefined,
                   opsStarted, envEpoch>>

\* projectService.createProject: Project.findOne({ customDomain })
CreateSvcCustom(r) ==
    /\ req[r].pc = "cSvcCustom"
    /\ LET q0 == req[r]
           q == IF existsCustomDomain(projects, q0.domain, 0)
                THEN Answer(q0, 409, "Domain already in use",
                            "This custom domain is already being used by another project")
                ELSE [q0 EXCEPT !.pc = "cSave"]
       IN  Commit(r, q, projects)
    /\ UNCHANGED <<projects, nextId, registrar, dns, stripUndefined,
                   opsStarted, envEpoch>>

\* the document new Project(projectData) holds
newProject(q) ==
    [exists |-> TRUE,
     subdomain |-> toLowerCase(trim(sanitizeSubdomain(q.name))),
     customDomain |-> IF useCustomDomain(q) THEN castCustomDomain(q.domain)
                      ELSE Undefined,
     domainStatus |-> IF useCustomDomain(q) THEN "pending" ELSE "verified"]

\* the pre("save") hook and the validators refuse the document
saveRefused(projs, doc, q) ==
    \/ Len(q.name) > MaxProjectNameLength
    \/ existsSubdomain(projs, doc.subdomain, 0)
    \/ (doc.customDomain # Undefined
          /\ existsCustomDomain(projs, doc.customDomain, 0))

\* projectService.createProject: project.save() of the new document, up to
\* the end of the pre("save") hook
CreateSave(r) ==
    /\ req[r].pc = "cSave"
    /\ LET q0 == req[r]
           q == IF saveRefused(projects, newProject(q0), q0)
                THEN Answer(q0, 500, "Internal server error",
                            "An unexpected error occurred")
                ELSE [q0 EXCEPT !.pc = "cInsert"]
       IN  Commit(r, q, projects)
    /\ UNCHANGED <<projects, nextId, registrar, dns, stripUndefined,
                   opsStarted, envEpoch>>

\* mutant: the collection has no unique index on subdomain
insertRefused_NoUniqueIndex(projs, doc) == FALSE

\* the unique index on subdomain refuses the insert
insertRefused(projs, doc) == existsSubdomain(projs, doc.subdomain, 0)

\* project.save() of the new document: the insert
CreateInsert(r) ==
    /\ req[r].pc = "cInsert"
    /\ nextId <= MaxProjects
    /\ LET q0 == req[r]
           doc == newProject(q0)
       IN  IF insertRefused(projects, doc)
           THEN /\ Commit(r, Answer(q0, 500, "Internal server error",
                                    "An unexpected error occurred"), projects)
                /\ UNCHANGED <<projects, nextId>>
           ELSE /\ projects' = [projects EXCEPT ![nextId] = doc]
                /\ nextId' = nextId + 1
                /\ Commit(r,
                          IF useCustomDomain(q0)
                          THEN [q0 EXCEPT !.pid = nextId, !.pc = "cAdd"]
                          ELSE Answer([q0 EXCEPT !.pid = nextId], 201, "",
                                      "Project created successfully"),
                          projects')
    /\ UNCHANGED <<registrar, dns, stripUndefined, opsStarted, envEpoch>>

\* projectService.createProject: VercelService.addDomain(data.customDomain)
CreateAddDomain(r, fault) ==
    /\ req[r].pc = "cAdd"
    /\ LET q0 == req[r]
       IN  /\ registrar' = addDomain(registrar, q0.domain, fault)
           /\ Commit(r, [q0 EXCEPT !.pc = "cStatus",
                                   !.addOk = addDomainOk(registrar, q0.domain, fault),
                                   !.regCalls = @ \cup {"add"}],
                     projects)
    /\ UNCHANGED <<projects, nextId, dns, stripUndefined, opsStarted, envEpoch>>

\* mutant: the document is deleted when addDomain failed
CreateSaveStatus_Discard(r) ==
    /\ req[r].pc = "cStatus"
    /\ LET q0 == req[r]
       IN  IF ~getProjectById(projects, q0.pid).exists
           THEN /\ Commit(r, Answer(q0, 500, "Internal server error",
                                    "An unexpected error occurred"), projects)
                /\ UNCHANGED projects
           ELSE IF q0.addOk
           THEN /\ projects' = updateDomainStatus(projects, q0.pid, "added")
                /\ Commit(r, [q0 EXCEPT !.pc = "cSetup"], projects')
           ELSE /\ projects' = [projects EXCEPT ![q0.pid] = NoProject]
                /\ Commit(r, Answer(q0, 500, "Domain setup failed",
                                    "Failed to set up the custom domain"),
                          projects')
    /\ UNCHANGED <<nextId, registrar, dns, stripUndefined, opsStarted, envEpoch>>

\* projectService.createProject: project.save() of domainStatus, "added"
\* after the registrar took the name and "failed" after it refused
CreateSaveStatus(r) ==
    /\ req[r].pc = "cStatus"
    /\ LET q0 == req[r]
       IN  IF ~getProjectById(projects, q0.pid).exists
           THEN /\ Commit(r, Answer(q0, 500, "Internal server error",
                                    "An unexpected error occurred"), projects)
                /\ UNCHANGED projects
           ELSE IF q0.addOk
           THEN /\ projects' = updateDomainStatus(projects, q0.pid, "added")
                /\ Commit(r, [q0 EXCEPT !.pc = "cSetup"], projects')
           ELSE /\ projects' = updateDomainStatus(projects, q0.pid, "failed")
                /\ Commit(r, Answer(q0, 500, "Domain setup failed",
                                    "Failed to set up the custom domain"),
                          projects')
    /\ UNCHANGED <<nextId, registrar, dns, stripUndefined, opsStarted, envEpoch>>

\* ProjectController.createProject: VercelService.getDomainSetupInfo, whose
\* failure is swallowed, then the 201 answer
CreateSetupInfo(r, fault) ==
    /\ req[r].pc = "cSetup"
    /\ LET info == getDomainSetupInfo(getDomain(registrar, req[r].domain, fault))
       IN  Commit(r, Answer([req[r] EXCEPT !.regCalls = @ \cup {"get"},
                                           !.setup = info],
                            201, "", "Project created successfully"), projects)
    /\ UNCHANGED <<projects, nextId, registrar, dns, stripUndefined,
                   opsStarted, envEpoch>>

(* ---------------------------------------------------------------------- *)
(* POST /api/domains: DomainController.addCustomDomain (Attach)            *)
(* ---------------------------------------------------------------------- *)

\* the checks before the first store read, the read, and validateDomain
AttachStart(r, pid, domain) ==
    /\ FreeSlot(r)
    /\ opsStarted < MaxOps
    /\ opsStarted' = opsStarted + 1
    /\ LET q0 == NewReq(r, "attach", pid, domain, NoStr, FALSE)
           project == getProjectById(projects, pid)
           v == validateDomain(domain)
           q == IF pid = NoPid \/ domain = NoStr
                THEN Answer(q0, 400, "Missing required fields",
                            "Project ID and domain are required")
                ELSE IF ~project.exists
                THEN Answer(q0, 404, "Project not found",
                            "No project found with the provided ID")
                ELSE IF ~v.isValid
                THEN Answer([q0 EXCEPT !.snap = project], 400,
                            "Invalid domain", v.error)
                ELSE [q0 EXCEPT !.snap = project, !.pc = "aLocal"]
       IN  Commit(r, q, projects)
    /\ UNCHANGED <<projects, nextId, registrar, dns, stripUndefined, envEpoch>>

\* mutant: the name is added at the registrar first and only then rejected
\* when a project already claims it
AttachCheckLocal_AddFirst(r) ==
    /\ req[r].pc = "aLocal"
    /\ LET q0 == [req[r] EXCEPT !.regCalls = @ \cup {"add"}]
           q == IF ~isCustomDomainAvailable(projects, q0.domain)
                THEN Answer(q0, 409, "Domain already in use",
                            "This domain is already being used by another project")
                ELSE [q0 EXCEPT !.pc = "aUpd"]
       IN  Commit(r, q, projects)
    /\ registrar' = addDomain(registrar, req[r].domain, FALSE)
    /\ UNCHANGED <<projects, nextId, dns, stripUndefined, opsStarted, envEpoch>>

\* projectService.isCustomDomainAvailable(domain)
AttachCheckLocal(r) ==
    /\ req[r].pc = "aLocal"
    /\ LET q0 == req[r]
           q == IF ~isCustomDomainAvailable(projects, q0.domain)
                THEN Answer(q0, 409, "Domain already in use",
                            "This domain is already being used by another project")
                ELSE [q0 EXCEPT !.pc = "aReg"]
       IN  Commit(r, q, projects)
    /\ UNCHANGED <<projects, nextId, registrar, dns, stripUndefined,
                   opsStarted, envEpoch>>

\* mutant: the registrar's answer is fetched but the handler goes on to
\* addDomain whatever it says
AttachCheckRegistrar_Unchecked(r, fault) ==
    /\ req[r].pc = "aReg"
    /\ LET a == isDomainAvailable(registrar, req[r].domain, fault)
           q0 == [req[r] EXCEPT !.regCalls = @ \cup {"get"}, !.avail = a]
       IN  Commit(r, [q0 EXCEPT !.pc = "aAdd"], projects)
    /\ UNCHANGED <<projects, nextId, registrar, dns, stripUndefined,
                   opsStarted, envEpoch>>

\* VercelService.isDomainAvailable(domain)
AttachCheckRegistrar(r, fault) ==
    /\ req[r].pc = "aReg"
    /\ LET a == isDomainAvailable(registrar, req[r].domain, fault)
           q0 == [req[r] EXCEPT !.regCalls = @ \cup {"get"}, !.avail = a]
           q == IF a.threw
                THEN Answer(q0, 500, "Internal server error",
                            "Failed to get domain information")
                ELSE IF ~a.value
                THEN Answer(q0, 409, "Domain not available",
                            "This domain is already configured on Vercel")
                ELSE [q0 EXCEPT !.pc = "aAdd"]
       IN  Commit(r, q, projects)
    /\ UNCHANGED <<projects, nextId, registrar, dns, stripUndefined,
                   opsStarted, envEpoch>>

\* VercelService.addDomain(domain)
AttachAddDomain(r, fault) ==
    /\ req[r].pc = "aAdd"
    /\ LET q0 == [req[r] EXCEPT !.regCalls = @ \cup {"add"},
                                !.addOk = addDomainOk(registrar, req[r].domain, fault)]
       IN  /\ registrar' = addDomain(registrar, q0.domain, fault)
           /\ Commit(r,
                     IF q0.addOk THEN [q0 EXCEPT !.pc = "aUpd"]
                     ELSE Answer(q0, 500, "Internal server error",
                                 "Failed to add domain to Vercel"),
                     projects)
    /\ UNCHANGED <<projects, nextId, dns, stripUndefined, opsStarted, envEpoch>>

\* the status updateProject writes after the registrar took the name
AttachStatus == "pending"

\* projectService.updateProject(projectId, { customDomain, domainStatus }):
\* it throws (fault), finds no document, or updates
AttachUpdate(r, fault) ==
    /\ req[r].pc = "aUpd"
    /\ LET q0 == req[r]
       IN  IF fault
           THEN /\ Commit(r, Answer(q0, 500, "Internal server error",
                                    "An unexpected error occurred"), projects)
                /\ UNCHANGED projects
           ELSE IF ~getProjectById(projects, q0.pid).exists
           THEN /\ Commit(r, [q0 EXCEPT !.pc = "aRollback"], projects)
                /\ UNCHANGED projects
           ELSE /\ projects' = updateProject(projects, q0.pid, q0.domain,
                                             AttachStatus, stripUndefined)
                /\ Commit(r, Answer(q0, 200, "",
                                    "Custom domain added successfully"),
                          projects')
    /\ UNCHANGED <<nextId, registrar, dns, stripUndefined, opsStarted, envEpoch>>

\* mutant: a failed compensation is answered as its own failure
AttachRollback_Surfaced(r, fault) ==
    /\ req[r].pc = "aRollback"
    /\ LET q0 == [req[r] EXCEPT !.regCalls = @ \cup {"delete"},
                                !.removeOk = removeDomainOk(registrar,
                                                            req[r].domain, fault)]
       IN  /\ registrar' = removeDomain(registrar, q0.domain, fault)
           /\ Commit(r,
                     IF q0.removeOk
                     THEN Answer(q0, 500, "Failed to update project",
                                 "Could not update project with custom domain")
                     ELSE Answer(q0, 500, "Internal server error",
                                 "Failed to remove domain"),
                     projects)
    /\ UNCHANGED <<projects, nextId, dns, stripUndefined, opsStarted, envEpoch>>

\* the compensation: VercelService.removeDomain(domain), its failure logged
AttachRollback(r, fault) ==
    /\ req[r].pc = "aRollback"
    /\ LET q0 == [req[r] EXCEPT !.regCalls = @ \cup {"delete"},
                                !.removeOk = removeDomainOk(registrar,
                                                            req[r].domain, fault)]
       IN  /\ registrar' = removeDomain(registrar, q0.domain, fault)
           /\ Commit(r, Answer(q0, 500, "Failed to update project",
                               "Could not update project with custom domain"),
                     projects)
    /\ UNCHANGED <<projects, nextId, dns, stripUndefined, opsStarted, envEpoch>>

(* ---------------------------------------------------------------------- *)
(* POST /api/domains/:projectId/verify: DomainController.verifyDomain      *)
(* ---------------------------------------------------------------------- *)

\* ways a registrar call fails other than by a 404: with a message of the
\* registrar, or with none (no response)
Faults == {"none", "upstream", "network"}

MsgVerifyGeneric == "Failed to verify domain"

MsgCheckGeneric == "Failed to check domain verification status"

\* error.message.includes("verification")
includesVerification(m) == m = MsgCheckGeneric

\* the catch block of verifyDomain: status code from the error message
verifyErrorStatus(m) ==
    IF includesNotFound(m) THEN 404
    ELSE IF includesVerification(m) THEN 400
    ELSE 500

\* the catch block of verifyDomain: the message answered
verifyErrorMessage(m) ==
    IF includesNotFound(m)
    THEN "Domain not found. Please ensure the domain is properly added to your Vercel project."
    ELSE IF includesVerification(m)
    THEN "Domain verification failed. Please check your DNS settings and try again."
    ELSE m

\* the message of the 400 answered when the status is not "added"
notReadyMessage(status) ==
    IF status = "pending"
    THEN "Domain is still being added to Vercel. Please wait a moment and try again."
    ELSE IF status = "verified" THEN "Domain is already verified."
    ELSE IF status = "failed"
    THEN "Domain addition failed. Please contact support."
    ELSE "Domain is not in the correct state for verification."

\* project.customDomain !== domain
verifyDomainMismatch(project, domain) == project.customDomain # domain

\* mutant: only a failed domain is refused
readyForVerification_NotFailed(project) == project.domainStatus # "failed"

\* the domain is ready for verification: project.domainStatus === "added"
readyForVerification(project) == project.domainStatus = "added"

\* mutant: the status is checked before the domain is compared
VerifyStart_StatusFirst(r, pid, domain) ==
    /\ FreeSlot(r)
    /\ opsStarted < MaxOps
    /\ opsStarted' = opsStarted + 1
    /\ LET q0 == NewReq(r, "verify", pid, domain, NoStr, FALSE)
           project == getProjectById(projects, pid)
           q1 == [q0 EXCEPT !.snap = project]
           q == IF pid = NoPid
                THEN Answer(q0, 400, "Missing project ID",
                            "Project ID is required")
                ELSE IF domain = NoStr
                THEN Answer(q0, 400, "Missing domain", "Domain is required")
                ELSE IF ~project.exists
                THEN Answer(q0, 404, "Project not found",
                            "No project found with the provided ID")
                ELSE IF ~readyForVerification(project)
                THEN Answer(q1, 400, "Domain not ready for verification",
                            notReadyMessage(project.domainStatus))
                ELSE IF verifyDomainMismatch(project, domain)
                THEN Answer(q1, 400, "Domain mismatch",
                            "The provided domain does not match the project's custom domain")
                ELSE [q1 EXCEPT !.pc = "vTrigger"]
       IN  Commit(r, q, projects)
    /\ UNCHANGED <<projects, nextId, registrar, dns, stripUndefined, envEpoch>>

\* the checks of verifyDomain before its first registrar call
VerifyStart(r, pid, domain) ==
    /\ FreeSlot(r)
    /\ opsStarted < MaxOps
    /\ opsStarted' = opsStarted + 1
    /\ LET q0 == NewReq(r, "verify", pid, domain, NoStr, FALSE)
           project == getProjectById(projects, pid)
           q1 == [q0 EXCEPT !.snap = project]
           q == IF pid = NoPid
                THEN Answer(q0, 400, "Missing project ID",
                            "Project ID is required")
                ELSE IF domain = NoStr
                THEN Answer(q0, 400, "Missing domain", "Domain is required")
                ELSE IF ~project.exists
                THEN Answer(q0, 404, "Project not found",
                            "No project found with the provided ID")
                ELSE IF verifyDomainMismatch(project, domain)
                THEN Answer(q1, 400, "Domain mismatch",
                            "The provided domain does not match the project's custom domain")
                ELSE IF ~readyForVerification(project)
                THEN Answer(q1, 400, "Domain not ready for verification",
                            notReadyMessage(project.domainStatus))
                ELSE [q1 EXCEPT !.pc = "vTrigger"]
       IN  Commit(r, q, projects)
    /\ UNCHANGED <<projects, nextId, registrar, dns, stripUndefined, envEpoch>>

\* the message of the error a failed registrar call throws
thrownMessage(fault, held, generic) ==
    IF fault = "upstream" THEN MsgUpstream
    ELSE IF fault = "network" THEN generic
    ELSE IF ~held THEN MsgNotFound
    ELSE generic

\* VercelService.verifyDomain(domain): the trigger
VerifyTrigger(r, fault) ==
    /\ req[r].pc = "vTrigger"
    /\ LET q0 == [req[r] EXCEPT !.regCalls = @ \cup {"verify"}]
           m == thrownMessage(fault, regHas(registrar, q0.domain),
                              MsgVerifyGeneric)
           q == IF verifyDomainOk(registrar, q0.domain, fault # "none")
                THEN [q0 EXCEPT !.pc = "vCheck"]
                ELSE Answer(q0, verifyErrorStatus(m),
                            "Domain verification failed", verifyErrorMessage(m))
       IN  Commit(r, q, projects)
    /\ UNCHANGED <<projects, nextId, registrar, dns, stripUndefined,
                   opsStarted, envEpoch>>

\* mutant: the registrar's flag alone decides
finalStatus_VerifiedOnly(chk) ==
    IF chk.verified THEN "verified" ELSE "added"

\* mutant: a verification that did not succeed is recorded as failed
finalStatus_Failed(chk) ==
    IF chk.verified /\ chk.usingVercelDNS THEN "verified" ELSE "failed"

\* the status verifyDomain persists
finalStatus(chk) ==
    IF chk.verified /\ chk.usingVercelDNS THEN "verified" ELSE "added"

\* after the settle delay: VercelService.checkDomainVerificationStatus(domain)
VerifyCheck(r, fault) ==
    /\ req[r].pc = "vCheck"
    /\ LET q0 == [req[r] EXCEPT !.regCalls = @ \cup {"check"},
                                !.ans = dnsAnswer(req[r].domain)]
           chk == checkDomainVerificationStatus(
                      getDomain(registrar, q0.domain, fault # "none"),
                      dnsAnswer(q0.domain))
           m == thrownMessage(fault, TRUE, MsgCheckGeneric)
           q == IF chk.threw
                THEN Answer([q0 EXCEPT !.chk = chk], verifyErrorStatus(m),
                            "Domain verification failed", verifyErrorMessage(m))
                ELSE [q0 EXCEPT !.chk = chk, !.pc = "vUpd"]
       IN  Commit(r, q, projects)
    /\ UNCHANGED <<projects, nextId, registrar, dns, stripUndefined,
                   opsStarted, envEpoch>>

\* the message of the 200 answer
verifyMessage(chk) ==
    IF chk.verified /\ chk.usingVercelDNS
    THEN "Domain verified successfully! Your project is now live with your custom domain."
    ELSE IF chk.verified /\ ~chk.usingVercelDNS
    THEN "Domain is verified but not using Vercel DNS. Please update your nameservers to Vercel DNS."
    ELSE "DNS verification failed. Please update your nameservers to Vercel DNS and try again."

\* projectService.updateDomainStatus(projectId, status)
VerifyUpdate(r, fault) ==
    /\ req[r].pc = "vUpd"
    /\ LET q0 == req[r]
       IN  IF fault
           THEN /\ Commit(r, Answer(q0, 500, "Domain verification failed",
                                    "An unexpected error occurred"), projects)
                /\ UNCHANGED projects
           ELSE IF ~getProjectById(projects, q0.pid).exists
           THEN /\ Commit(r, Answer(q0, 500, "Failed to update project",
                                    "Could not update project domain status"),
                          projects)
                /\ UNCHANGED projects
           ELSE /\ projects' = updateDomainStatus(projects, q0.pid,
                                                  finalStatus(q0.chk))
                /\ Commit(r, Answer(q0, 200, "", verifyMessage(q0.chk)),
                          projects')
    /\ UNCHANGED <<nextId, registrar, dns, stripUndefined, opsStarted, envEpoch>>

(* ---------------------------------------------------------------------- *)
(* DELETE /api/domains/:projectId: DomainController.removeCustomDomain     *)
(* ---------------------------------------------------------------------- *)

\* mutant: a project without a custom domain is not checked
removeDomainMismatch_OnlyIfSet(project, domain) ==
    /\ project.customDomain \notin {Undefined, Null}
    /\ project.customDomain # domain

\* project.customDomain !== domain
removeDomainMismatch(project, domain) == project.customDomain # domain

RemoveStart(r, pid, domain) ==
    /\ FreeSlot(r)
    /\ opsStarted < MaxOps
    /\ opsStarted' = opsStarted + 1
    /\ LET q0 == NewReq(r, "remove", pid, domain, NoStr, FALSE)
           project == getProjectById(projects, pid)
           q1 == [q0 EXCEPT !.snap = project]
           q == IF domain = NoStr
                THEN Answer(q0, 400, "Missing domain", "Domain is required")
                ELSE IF ~project.exists
                THEN Answer(q0, 404, "Project not found",
                            "No project found with the provided ID")
                ELSE IF removeDomainMismatch(project, domain)
                THEN Answer(q1, 400, "Domain mismatch",
                            "The provided domain does not match the project's custom domain")
                ELSE [q1 EXCEPT !.pc = "rReg"]
       IN  Commit(r, q, projects)
    /\ UNCHANGED <<projects, nextId, registrar, dns, stripUndefined, envEpoch>>

\* mutant: a failed removal is logged and the handler goes on, as in the
\* compensation of Attach
RemoveRegistrar_BestEffort(r, fault) ==
    /\ req[r].pc = "rReg"
    /\ LET q0 == [req[r] EXCEPT !.regCalls = @ \cup {"delete"},
                                !.removeOk = removeDomainOk(registrar,
                                                            req[r].domain, fault)]
       IN  /\ registrar' = removeDomain(registrar, q0.domain, fault)
           /\ Commit(r, [q0 EXCEPT !.pc = "rUpd"], projects)
    /\ UNCHANGED <<projects, nextId, dns, stripUndefined, opsStarted, envEpoch>>

\* the message of the error removeDomain throws: the registrar's message
\* for its 404, the generic one for a failure without a response
removeErrorMessage(fault) ==
    IF fault THEN "Failed to remove domain" ELSE MsgNotFound

\* VercelService.removeDomain(domain)
RemoveRegistrar(r, fault) ==
    /\ req[r].pc = "rReg"
    /\ LET q0 == [req[r] EXCEPT !.regCalls = @ \cup {"delete"},
                                !.removeOk = removeDomainOk(registrar,
                                                            req[r].domain, fault)]
       IN  /\ registrar' = removeDomain(registrar, q0.domain, fault)
           /\ Commit(r,
                     IF removeDomainOk(registrar, q0.domain, fault)
                     THEN [q0 EXCEPT !.pc = "rUpd"]
                     ELSE Answer(q0, 500, "Internal server error",
                                 removeErrorMessage(fault)),
                     projects)
    /\ UNCHANGED <<projects, nextId, dns, stripUndefined, opsStarted, envEpoch>>

\* projectService.updateProject(projectId,
\*     { customDomain: undefined, domainStatus: "verified" })
RemoveUpdate(r, fault) ==
    /\ req[r].pc = "rUpd"
    /\ LET q0 == req[r]
       IN  IF fault
           THEN /\ Commit(r, Answer(q0, 500, "Internal server error",
                                    "An unexpected error occurred"), projects)
                /\ UNCHANGED projects
           ELSE IF ~getProjectById(projects, q0.pid).exists
           THEN /\ Commit(r, Answer(q0, 500, "Failed to update project",
                                    "Could not update project after removing custom domain"),
                          projects)
                /\ UNCHANGED projects
           ELSE /\ projects' = updateProject(projects, q0.pid, Undefined,
                                             "verified", stripUndefined)
                /\ Commit(r, Answer(q0, 200, "",
                                    "Custom domain removed successfully"),
                          projects')
    /\ UNCHANGED <<nextId, registrar, dns, stripUndefined, opsStarted, envEpoch>>

(* ---------------------------------------------------------------------- *)
(* GET /api/domains/check/:domain: DomainController.checkDomainAvailability *)
(* ---------------------------------------------------------------------- *)

\* the domains probed
ProbeDomains == {DomA, DomAUpper, DomBad}

ProbeStart(r, domain) ==
    /\ FreeSlot(r)
    /\ opsStarted < MaxOps
    /\ opsStarted' = opsStarted + 1
    /\ LET q0 == NewReq(r, "probe", NoPid, domain, NoStr, FALSE)
           v == validateDomain(domain)
           q == IF domain = NoStr
                THEN Answer(q0, 400, "Missing domain",
                            "Domain parameter is required")
                ELSE IF ~v.isValid
                THEN Answer(q0, 200, "", v.error)
                ELSE [q0 EXCEPT !.pc = "pLocal"]
       IN  Commit(r, q, projects)
    /\ UNCHANGED <<projects, nextId, registrar, dns, stripUndefined, envEpoch>>

\* mutant: the store is not asked
ProbeCheckLocal_Unchecked(r) ==
    /\ req[r].pc = "pLocal"
    /\ Commit(r, [req[r] EXCEPT !.pc = "pReg"], projects)
    /\ UNCHANGED <<projects, nextId, registrar, dns, stripUndefined,
                   opsStarted, envEpoch>>

\* projectService.isCustomDomainAvailable(domain)
ProbeCheckLocal(r) ==
    /\ req[r].pc = "pLocal"
    /\ LET q0 == req[r]
           q == IF ~isCustomDomainAvailable(projects, q0.domain)
                THEN Answer(q0, 200, "",
                            "Domain is already in use by another project")
                ELSE [q0 EXCEPT !.pc = "pReg"]
       IN  Commit(r, q, projects)
    /\ UNCHANGED <<projects, nextId, registrar, dns, stripUndefined,
                   opsStarted, envEpoch>>

\* VercelService.isDomainAvailable(domain) and the answer
ProbeCheckRegistrar(r, fault) ==
    /\ req[r].pc = "pReg"
    /\ LET a == isDomainAvailable(registrar, req[r].domain, fault)
           q0 == [req[r] EXCEPT !.regCalls = @ \cup {"get"}, !.avail = a]
           q == IF a.threw
                THEN Answer(q0, 500, "Internal server error",
                            "An unexpected error occurred while checking domain availability")
                ELSE Answer(q0, 200, "",
                            IF a.value THEN "Domain is available"
                            ELSE "Domain is already configured on Vercel")
       IN  Commit(r, q, projects)
    /\ UNCHANGED <<projects, nextId, registrar, dns, stripUndefined,
                   opsStarted, envEpoch>>

(* ---------------------------------------------------------------------- *)
(* Environment                                                             *)
(* ---------------------------------------------------------------------- *)

\* the registrar finishes (or loses) the verification of a name it holds,
\* or the name is taken off the registrar's project by hand, and the name's
\* delegation changes
EnvRegistrar(n, v, ans) ==
    /\ envEpoch < MaxEnv
    /\ registrar[n] # "absent"
    /\ <<v, ans>> # <<registrar[n], dns[n]>>
    /\ registrar' = [registrar EXCEPT ![n] = v]
    /\ dns' = [dns EXCEPT ![n] = ans]
    /\ envEpoch' = envEpoch + 1
    /\ UNCHANGED <<projects, nextId, stripUndefined, req, opsStarted>>

\* a document is deleted from the collection out of band (the service has
\* no endpoint that deletes a project)
EnvDeleteProject(p) ==
    /\ envEpoch < MaxEnv
    /\ projects[p].exists
    /\ projects' = [projects EXCEPT ![p] = NoProject]
    /\ envEpoch' = envEpoch + 1
    /\ UNCHANGED <<nextId, registrar, dns, stripUndefined, req, opsStarted>>

(* ---------------------------------------------------------------------- *)
(* Specifications                                                          *)
(* ---------------------------------------------------------------------- *)

StartRequest ==
    \E r \in Reqs :
        \/ \E name \in NameInputs, custom \in CreateDomainInputs :
               CreateStart(r, name, custom # NoStr, custom)
        \/ \E in \in RequestInputs(AttachDomains) : AttachStart(r, in[1], in[2])
        \/ \E in \in RequestInputs(DomainInputs) : VerifyStart(r, in[1], in[2])
        \/ \E in \in RequestInputs(DomainInputs) : RemoveStart(r, in[1], in[2])
        \/ \E domain \in ProbeDomains : ProbeStart(r, domain)

StepRequest ==
    \E r \in Reqs :
        \/ CreateSvcSub(r)
        \/ CreateSvcCustom(r)
        \/ CreateSave(r)
        \/ CreateInsert(r)
        \/ \E fault \in BOOLEAN : CreateAddDomain(r, fault)
        \/ CreateSaveStatus(r)
        \/ \E fault \in BOOLEAN : CreateSetupInfo(r, fault)
        \/ AttachCheckLocal(r)
        \/ \E fault \in BOOLEAN : AttachCheckRegistrar(r, fault)
        \/ \E fault \in BOOLEAN : AttachAddDomain(r, fault)
        \/ \E fault \in BOOLEAN : AttachUpdate(r, fault)
        \/ \E fault \in BOOLEAN : AttachRollback(r, fault)
        \/ \E fault \in Faults : VerifyTrigger(r, fault)
        \/ \E fault \in Faults : VerifyCheck(r, fault)
        \/ \E fault \in BOOLEAN : VerifyUpdate(r, fault)
        \/ \E fault \in BOOLEAN : RemoveRegistrar(r, fault)
        \/ \E fault \in BOOLEAN : RemoveUpdate(r, fault)
        \/ ProbeCheckLocal(r)
        \/ \E fault \in BOOLEAN : ProbeCheckRegistrar(r, fault)

Environment ==
    \/ \E n \in RegNames, v \in {"absent", "unverified", "verified"},
          ans \in DnsAnswers :
           EnvRegistrar(n, v, ans)
    \/ \E p \in ProjectIds : EnvDeleteProject(p)

\* requests handled one at a time
Next ==
    \/ (Solo /\ StartRequest)
    \/ StepRequest
    \/ Environment

Spec == Init /\ [][Next]_vars

\* project names and custom domains of concurrent project creations
ConcNameInputs == {<<"p">>, <<"P","!">>, <<"q">>}

ConcDomainInputs == {DomA, NoStr}

StartConc ==
    \E r \in Reqs :
        \/ \E name \in ConcNameInputs, custom \in ConcDomainInputs :
               CreateStart(r, name, custom # NoStr, custom)
        \/ \E pid \in ProjectIds : AttachStart(r, pid, DomA)

StepConc ==
    \E r \in Reqs :
        \/ CreateSvcSub(r)
        \/ CreateSvcCustom(r)
        \/ CreateSave(r)
        \/ CreateInsert(r)
        \/ \E fault \in BOOLEAN : CreateAddDomain(r, fault)
        \/ CreateSaveStatus(r)
        \/ \E fault \in BOOLEAN : CreateSetupInfo(r, fault)
        \/ AttachCheckLocal(r)
        \/ \E fault \in BOOLEAN : AttachCheckRegistrar(r, fault)
        \/ \E fault \in BOOLEAN : AttachAddDomain(r, fault)
        \/ \E fault \in BOOLEAN : AttachUpdate(r, fault)
        \/ \E fault \in BOOLEAN : AttachRollback(r, fault)

\* project creations and Attach requests handled concurrently: a handler
\* yields at every await
NextConc ==
    \/ StartConc
    \/ StepConc
    \/ \E p \in ProjectIds : EnvDeleteProject(p)

SpecConc == Init /\ [][NextConc]_vars

\* the domains of concurrent requests on one project
RaceDomains == {DomA, DomB}

\* a project is created with a custom domain, alone; then Verify, Remove
\* and Attach requests on that project start while others are running
StartRace ==
    \E r \in Reqs :
        \/ /\ Solo
           /\ \A p \in ProjectIds : ~projects[p].exists
           /\ CreateStart(r, <<"p">>, TRUE, DomA)
        \/ /\ \A q \in Reqs : req[q].pc \in {"idle", "done"} \/ req[q].kind # "create"
           /\ \E p \in ProjectIds, domain \in RaceDomains :
                  /\ projects[p].exists
                  /\ \/ AttachStart(r, p, domain)
                     \/ VerifyStart(r, p, domain)
                     \/ RemoveStart(r, p, domain)

StepRace ==
    \E r \in Reqs :
        \/ CreateSvcSub(r)
        \/ CreateSvcCustom(r)
        \/ CreateSave(r)
        \/ CreateInsert(r)
        \/ \E fault \in BOOLEAN : CreateAddDomain(r, fault)
        \/ CreateSaveStatus(r)
        \/ \E fault \in BOOLEAN : CreateSetupInfo(r, fault)
        \/ AttachCheckLocal(r)
        \/ \E fault \in BOOLEAN : AttachCheckRegistrar(r, fault)
        \/ \E fault \in BOOLEAN : AttachAddDomain(r, fault)
        \/ \E fault \in BOOLEAN : AttachUpdate(r, fault)
        \/ \E fault \in BOOLEAN : AttachRollback(r, fault)
        \/ \E fault \in Faults : VerifyTrigger(r, fault)
        \/ \E fault \in Faults : VerifyCheck(r, fault)
        \/ \E fault \in BOOLEAN : VerifyUpdate(r, fault)
        \/ \E fault \in BOOLEAN : RemoveRegistrar(r, fault)
        \/ \E fault \in BOOLEAN : RemoveUpdate(r, fault)

\* Verify, Remove and Attach requests on one project handled concurrently:
\* a handler yields at every await
NextRace ==
    \/ StartRace
    \/ StepRace
    \/ Environment

SpecRace == Init /\ [][NextRace]_vars

\* two projects created without a custom domain, and no request running
InitAttachRace ==
    /\ projects = [p \in ProjectIds |->
                      IF p = 1
                      THEN [exists |-> TRUE, subdomain |-> <<"p">>,
                            customDomain |-> Undefined,
                            domainStatus |-> "verified"]
                      ELSE IF p = 2
                      THEN [exists |-> TRUE, subdomain |-> <<"q">>,
                            customDomain |-> Undefined,
                            domainStatus |-> "verified"]
                      ELSE NoProject]
    /\ nextId = 3
    /\ registrar = [n \in RegNames |-> "absent"]
    /\ dns = [n \in RegNames |-> [ok |-> TRUE, ns |-> <<NsOther>>]]
    /\ stripUndefined \in BOOLEAN
    /\ req = [r \in Reqs |-> IdleReq]
    /\ opsStarted = 0
    /\ envEpoch = 0

StartAttachRace ==
    \E r \in Reqs, p \in ProjectIds, domain \in RaceDomains :
        AttachStart(r, p, domain)

StepAttachRace ==
    \E r \in Reqs :
        \/ AttachCheckLocal(r)
        \/ \E fault \in BOOLEAN : AttachCheckRegistrar(r, fault)
        \/ \E fault \in BOOLEAN : AttachAddDomain(r, fault)
        \/ \E fault \in BOOLEAN : AttachUpdate(r, fault)
        \/ \E fault \in BOOLEAN : AttachRollback(r, fault)

\* Attach requests on two projects handled concurrently: a handler yields
\* at every await; a project may be deleted out of band
NextAttachRace ==
    \/ StartAttachRace
    \/ StepAttachRace
    \/ \E p \in ProjectIds : EnvDeleteProject(p)

SpecAttachRace == InitAttachRace /\ [][NextAttachRace]_vars

\* one domain written in two letter cases
CaseDomains == {DomA, DomAUpper}

\* one project created with the custom domain a.c, added at the registrar,
\* one created without a custom domain, and no request running
InitCase ==
    /\ projects = [p \in ProjectIds |->
                      IF p = 1
                      THEN [exists |-> TRUE, subdomain |-> <<"p">>,
                            customDomain |-> DomA,
                            domainStatus |-> "added"]
                      ELSE IF p = 2
                      THEN [exists |-> TRUE, subdomain |-> <<"q">>,
                            customDomain |-> Undefined,
                            domainStatus |-> "verified"]
                      ELSE NoProject]
    /\ nextId = 3
    /\ registrar = [n \in RegNames |-> IF n = DomA THEN "unverified"
                                       ELSE "absent"]
    /\ dns = [n \in RegNames |-> [ok |-> TRUE, ns |-> <<NsOther>>]]
    /\ stripUndefined \in BOOLEAN
    /\ req = [r \in Reqs |-> IdleReq]
    /\ opsStarted = 0
    /\ envEpoch = 0

StartCase ==
    \E r \in Reqs, p \in ProjectIds, domain \in CaseDomains :
        \/ AttachStart(r, p, domain)
        \/ VerifyStart(r, p, domain)
        \/ RemoveStart(r, p, domain)

StepCase ==
    \E r \in Reqs :
        \/ AttachCheckLocal(r)
        \/ \E fault \in BOOLEAN : AttachCheckRegistrar(r, fault)
        \/ \E fault \in BOOLEAN : AttachAddDomain(r, fault)
        \/ \E fault \in BOOLEAN : AttachUpdate(r, fault)
        \/ \E fault \in BOOLEAN : AttachRollback(r, fault)
        \/ \E fault \in Faults : VerifyTrigger(r, fault)
        \/ \E fault \in Faults : VerifyCheck(r, fault)
        \/ \E fault \in BOOLEAN : VerifyUpdate(r, fault)
        \/ \E fault \in BOOLEAN : RemoveRegistrar(r, fault)
        \/ \E fault \in BOOLEAN : RemoveUpdate(r, fault)

\* Attach, Verify and Remove requests on two stored projects, one at a
\* time, the domain written in either case
NextCase ==
    \/ (Solo /\ StartCase)
    \/ StepCase
    \/ Environment

SpecCase == InitCase /\ [][NextCase]_vars

\* a label of n letters
LabelOf(n) == [i \in 1..n |-> "a"]

\* a domain of n characters made of labels of the greatest length
LongDomain(n) ==
    [i \in 1..n |-> IF i % (MaxLabelInner + 3) = 0 THEN "." ELSE "a"]

\* the domains given to the validator: blank, padded, well formed and
\* malformed, at and over the limits of a label and of a domain, denylisted
\* in either case, under a denylisted name and ending in a denylisted label
ValidateInputs == {
    <<" ">>,
    <<" "," ">>,
    <<" ","a",".","c">>,
    <<"a",".","c"," ">>,
    <<"a",".","c">>,
    <<"A",".","c">>,
    <<"a">>,
    <<"-","a">>,
    <<"a","-",".","c">>,
    <<"a",".",".","c">>,
    <<".","a">>,
    <<"a",".">>,
    <<"a","_","b",".","c">>,
    <<"a","-","b",".","c">>,
    <<"1",".","2">>,
    <<"l","o","c","a","l","h","o","s","t">>,
    <<"L","o","c","a","l","H","o","s","t">>,
    <<"v","e","r","c","e","l",".","a","p","p">>,
    <<"V","e","r","c","e","l",".","A","p","p">>,
    <<"x",".","v","e","r","c","e","l",".","a","p","p">>,
    <<"X",".","V","e","r","c","e","l",".","A","p","p">>,
    <<"t","o","k","l","y",".","i","o">>,
    <<"a","p","p",".","t","o","k","l","y",".","i","o">>,
    <<"a",".","l","o","c","a","l","h","o","s","t">>,
    <<"a",".","L","O","C","A","L","H","O","S","T">>,
    <<"l","o","c","a","l","h","o","s","t",".","a">>,
    <<"v","e","r","c","e","l",".","a","p","p",".","c">>,
    <<"i","o">>,
    <<"g","i","t","h","u","b",".","i","o">>,
    <<"a",".","g","i","t","h","u","b",".","i","o">>,
    LabelOf(MaxLabelInner + 2) \o <<".","c">>,
    LabelOf(MaxLabelInner + 3) \o <<".","c">>,
    LongDomain(MaxDomainLength - 1),
    LongDomain(MaxDomainLength),
    LongDomain(MaxDomainLength + 1),
    LongDomain(MaxDomainLength + 2),
    <<"-">> \o LongDomain(MaxDomainLength),
    LongDomain(MaxDomainLength) \o <<".">>
        \o <<"v","e","r","c","e","l",".","a","p","p">>}

\* the availability probe given each of them, one request at a time
StartValidate ==
    \E r \in Reqs, domain \in ValidateInputs : ProbeStart(r, domain)

StepValidate ==
    \E r \in Reqs :
        \/ ProbeCheckLocal(r)
        \/ \E fault \in BOOLEAN : ProbeCheckRegistrar(r, fault)

NextValidate ==
    \/ (Solo /\ StartValidate)
    \/ StepValidate

SpecValidate == Init /\ [][NextValidate]_vars

(* ---------------------------------------------------------------------- *)
(* Properties                                                              *)
(* ---------------------------------------------------------------------- *)

Answered(r, kind) == req[r].kind = kind /\ req[r].pc = "done"

NoCustomDomain(project) == project.customDomain \in {Undefined, Null}

\* C1: an Attach that passed every check, whose addDomain and whose local
\* update succeeded (answered 200), leaves the project with customDomain = D
\* and domainStatus = added.
C1_AttachLeavesAdded ==
    \A r \in Reqs :
        (Answered(r, "attach") /\ req[r].code = 200)
            => /\ req[r].post.customDomain = req[r].domain
               /\ req[r].post.domainStatus = "added"

\* C2: a Verify on a project whose domainStatus is not added is rejected in
\* the step that read the project, has made no registrar call, and leaves
\* the project document as it was read.
C2_VerifyNotAddedRejected ==
    \A r \in Reqs :
        (req[r].kind = "verify" /\ req[r].snap.exists
            /\ req[r].snap.domainStatus # "added")
            => /\ req[r].pc = "done"
               /\ req[r].code = 400
               /\ req[r].err \in {"Domain mismatch",
                                  "Domain not ready for verification"}
               /\ req[r].regCalls = {}
               /\ req[r].post = req[r].snap

\* C2 witness: a Verify of the project's own domain at status pending was
\* answered "still being added".
C2_Witness ==
    \E r \in Reqs :
        /\ Answered(r, "verify")
        /\ req[r].snap.domainStatus = "pending"
        /\ req[r].snap.customDomain = req[r].domain
        /\ req[r].err = "Domain not ready for verification"
        /\ req[r].msg = notReadyMessage("pending")

\* C3: a Verify at status added whose registrar calls and update did not
\* fail (answered 200) leaves status verified exactly when the check
\* reported verified and usingVercelDNS, and status added otherwise.
C3_VerifyPersists ==
    \A r \in Reqs :
        (Answered(r, "verify") /\ req[r].code = 200)
            => /\ req[r].snap.domainStatus = "added"
               /\ req[r].post.domainStatus \in {"verified", "added"}
               /\ (req[r].post.domainStatus = "verified"
                     <=> (req[r].chk.verified /\ req[r].chk.usingVercelDNS))

\* C3 witness: a Verify answered 200 after a check that reported verified
\* without provider DNS, leaving status added.
C3_Witness ==
    \E r \in Reqs :
        /\ Answered(r, "verify")
        /\ req[r].code = 200
        /\ req[r].chk.verified
        /\ ~req[r].chk.usingVercelDNS
        /\ req[r].post.domainStatus = "added"

OnlyProviderNameservers(ans) ==
    /\ ans.ok
    /\ \A i \in DOMAIN ans.ns : toLowerCase(ans.ns[i]) \in {Ns1Vercel, Ns2Vercel}

SomeProviderNameserver(ans) ==
    /\ ans.ok
    /\ \E i \in DOMAIN ans.ns : toLowerCase(ans.ns[i]) \in {Ns1Vercel, Ns2Vercel}

Checked(r) == req[r].kind = "verify" /\ "check" \in req[r].regCalls

\* C4 as stated: usingVercelDNS is reported only when the registrar reports
\* verified and no resolved nameserver is outside the provider's set.
C4_OnlyProviderNameservers ==
    \A r \in Reqs :
        (Checked(r) /\ req[r].chk.usingVercelDNS)
            => /\ req[r].chk.verified
               /\ OnlyProviderNameservers(req[r].ans)

\* C4 amended: usingVercelDNS is reported exactly when the registrar
\* reports verified and at least one resolved nameserver, compared without
\* regard to case, is one of the provider's; a failed lookup or a list with
\* none of the provider's nameservers is not reported as provider DNS.
C4_SomeProviderNameserver ==
    \A r \in Reqs :
        (Checked(r) /\ ~req[r].chk.threw)
            => (req[r].chk.usingVercelDNS
                  <=> (req[r].chk.verified /\ SomeProviderNameserver(req[r].ans)))

\* C4 witness: the check reported provider DNS for a verified name whose
\* nameserver list also holds a foreign nameserver.
C4_Witness ==
    \E r \in Reqs :
        /\ Checked(r)
        /\ req[r].chk.usingVercelDNS
        /\ req[r].chk.verified
        /\ ~OnlyProviderNameservers(req[r].ans)

\* C5: a Remove carrying a domain string that differs from the customDomain
\* of the project it read (or read a project with none) is answered 400
\* "Domain mismatch" in that step, has made no registrar call, and leaves
\* the project document as it was read.
C5_RemoveMismatch ==
    \A r \in Reqs :
        (req[r].kind = "remove" /\ req[r].snap.exists
            /\ req[r].snap.customDomain # req[r].domain)
            => /\ req[r].pc = "done"
               /\ req[r].code = 400
               /\ req[r].err = "Domain mismatch"
               /\ req[r].regCalls = {}
               /\ req[r].post = req[r].snap

\* C5 witness: a Remove on a project without a custom domain was answered
\* "Domain mismatch".
C5_Witness ==
    \E r \in Reqs :
        /\ Answered(r, "remove")
        /\ req[r].snap.exists
        /\ NoCustomDomain(req[r].snap)
        /\ req[r].err = "Domain mismatch"

\* C6: after a Remove answered 200 the project has no customDomain, its
\* domainStatus is verified, and the registrar no longer holds the name.
C6_RemoveClears ==
    \A r \in Reqs :
        (Answered(r, "remove") /\ req[r].code = 200)
            => /\ NoCustomDomain(req[r].post)
               /\ req[r].post.domainStatus = "verified"
               /\ ~regHas(registrar, req[r].domain)

\* C7: a Remove whose registrar removal failed is answered with a failure
\* and the project document is the one it read.
C7_RemoveAborts ==
    \A r \in Reqs :
        (Answered(r, "remove") /\ "delete" \in req[r].regCalls
            /\ ~req[r].removeOk)
            => /\ req[r].code = 500
               /\ req[r].err = "Internal server error"
               /\ (req[r].post.exists => req[r].post = req[r].snap)

\* C7 witness: a Remove of the project's domain was answered 500 after the
\* registrar removal failed, the project still claiming the domain.
C7_Witness ==
    \E r \in Reqs :
        /\ Answered(r, "remove")
        /\ "delete" \in req[r].regCalls
        /\ ~req[r].removeOk
        /\ req[r].code = 500
        /\ req[r].post.exists
        /\ req[r].post.customDomain = req[r].domain

\* C8: a Remove(P, D) that directly follows a Remove(P, D) answered 200 is
\* answered "Domain mismatch", makes no registrar call and changes nothing.
C8_SecondRemoveMismatch ==
    \A r \in Reqs :
        (req[r].kind = "remove" /\ req[r].follows = "same")
            => /\ req[r].pc = "done"
               /\ req[r].err = "Domain mismatch"
               /\ req[r].regCalls = {}
               /\ req[r].post = req[r].snap

\* the environment has made no change since request r started
Quiet(r) ==
    IF req[r].pc = "done" THEN req[r].e1 = req[r].e0
    ELSE req[r].e0 = envEpoch

\* C9: with nothing else happening, an Attach of D to an existing project
\* that directly follows an Attach of D answered 200 does not call
\* addDomain, and it is answered 409 "Domain already in use" or "Domain not
\* available".
C9_SecondAttachRejected ==
    \A r \in Reqs :
        (/\ req[r].kind = "attach"
         /\ req[r].follows # "no"
         /\ req[r].snap.exists
         /\ Quiet(r))
            => /\ "add" \notin req[r].regCalls
               /\ (req[r].pc = "done")
                     => /\ req[r].code = 409
                        /\ req[r].err \in {"Domain already in use",
                                           "Domain not available"}

\* C9 witness: the second of two Attach requests for the same project and
\* domain was answered 409.
C9_Witness ==
    \E r \in Reqs :
        /\ Answered(r, "attach")
        /\ req[r].follows = "same"
        /\ req[r].code = 409

\* C10: with registrar and DNS unchanged, a Verify(P, D) that directly
\* follows a Verify(P, D) answered 200 leaves the project document as it
\* found it; and no Verify leaves a status failed or pending that it did
\* not find.
C10_VerifyIdempotent ==
    \A r \in Reqs :
        Answered(r, "verify")
            => /\ (req[r].follows = "same" /\ req[r].e1 = req[r].e0)
                     => req[r].post = req[r].snap
               /\ (req[r].snap.exists /\ req[r].post.exists
                     /\ req[r].post.domainStatus \in {"failed", "pending"})
                     => req[r].post.domainStatus = req[r].snap.domainStatus

\* C10 witness: the second of two Verify requests at status added was
\* evaluated again (answered 200) and left status added.
C10_Witness ==
    \E r \in Reqs :
        /\ Answered(r, "verify")
        /\ req[r].follows = "same"
        /\ req[r].code = 200
        /\ req[r].snap.domainStatus = "added"
        /\ req[r].post.domainStatus = "added"

\* a step of slot r that belongs to the request n = req'[r]
StepOf(r, kind) == req'[r] # req[r] /\ req'[r].kind = kind

\* C11: an Attach rejected as invalid, as claimed locally or as configured
\* at the registrar has not called addDomain and its steps leave the store
\* and the registrar as they were; addDomain is called only from the step
\* that follows validation, the local uniqueness check and the registrar
\* availability check, passed in that order.
C11_AttachOrder ==
    [][\A r \in Reqs :
          StepOf(r, "attach") =>
              /\ ("add" \in req'[r].regCalls)
                    => (req[r].kind = "attach"
                          /\ req[r].pc \in {"aAdd", "aUpd", "aRollback"})
              /\ (req[r].pc \in {"idle", "done", "aLocal", "aReg"})
                    => /\ UNCHANGED <<projects, registrar>>
                       /\ "add" \notin req'[r].regCalls
              /\ (req'[r].pc = "aLocal")
                    => /\ req[r].pc \in {"idle", "done"}
                       /\ validateDomain(req'[r].domain).isValid
              /\ (req'[r].pc = "aReg")
                    => /\ req[r].pc = "aLocal"
                       /\ isCustomDomainAvailable(projects, req[r].domain)
              /\ (req'[r].pc = "aAdd")
                    => /\ req[r].pc = "aReg"
                       /\ ~regHas(registrar, req[r].domain)
                       /\ req'[r].avail.value
              /\ (req'[r].pc = "done" /\ req[r].pc = "aLocal")
                    => req'[r].code = 409 /\ req'[r].err = "Domain already in use"
              /\ (req'[r].pc = "done" /\ req[r].pc = "aReg"
                    /\ regHas(registrar, req[r].domain))
                    => req'[r].code \in {409, 500}
                          /\ "add" \notin req'[r].regCalls
      ]_vars

\* C11 witness: an Attach was answered "Domain not available" for a name the
\* registrar holds, without an addDomain call.
C11_Witness ==
    \E r \in Reqs :
        /\ Answered(r, "attach")
        /\ req[r].err = "Domain not available"
        /\ "add" \notin req[r].regCalls
        /\ regHas(registrar, req[r].domain)

\* C12: an Attach whose addDomain succeeded and that was answered with a
\* failure has attempted removeDomain as compensation.
C12_UpdateFailureCompensated ==
    \A r \in Reqs :
        (Answered(r, "attach") /\ req[r].addOk /\ req[r].code # 200)
            => "delete" \in req[r].regCalls

\* C13: an Attach that attempted the compensating removeDomain is answered
\* with the project-update failure, whether the removal succeeded or not.
C13_RollbackFailureHidden ==
    \A r \in Reqs :
        (Answered(r, "attach") /\ "delete" \in req[r].regCalls)
            => /\ req[r].code = 500
               /\ req[r].err = "Failed to update project"
               /\ req[r].msg = "Could not update project with custom domain"

\* C13 witness: an Attach was answered after a compensating removal that
\* failed.
C13_Witness ==
    \E r \in Reqs :
        /\ Answered(r, "attach")
        /\ "delete" \in req[r].regCalls
        /\ ~req[r].removeOk

\* C14: no step moves a project whose custom domain is verified (status
\* verified, the name still held by the registrar, so that no Remove has
\* happened since) to status pending or added.
C14_NoRegressionFromVerified ==
    [][\A p \in ProjectIds :
          (/\ projects[p].exists
           /\ projects'[p].exists
           /\ projects[p].domainStatus = "verified"
           /\ ~NoCustomDomain(projects[p])
           /\ regHas(registrar, projects[p].customDomain))
              => projects'[p].domainStatus \notin {"pending", "added"}
      ]_vars

\* C15: a request (Attach or project creation) answered after its addDomain
\* call failed leaves the project's status failed; and a step that makes a
\* status failed starts from pending or added and belongs to a request whose
\* addDomain call failed.
C15_AddFailureMarksFailed ==
    [][/\ \A r \in Reqs :
             (/\ req'[r] # req[r]
              /\ req'[r].pc = "done"
              /\ req'[r].kind \in {"attach", "create"}
              /\ "add" \in req'[r].regCalls
              /\ ~req'[r].addOk
              /\ getProjectById(projects', req'[r].pid).exists)
                 => projects'[req'[r].pid].domainStatus = "failed"
       /\ \A p \in ProjectIds :
             (/\ projects'[p].exists
              /\ projects'[p].domainStatus = "failed"
              /\ ~(projects[p].exists /\ projects[p].domainStatus = "failed"))
                 => /\ projects[p].exists
                    /\ projects[p].domainStatus \in {"pending", "added"}
                    /\ \E r \in Reqs : /\ req[r].pid = p
                                       /\ "add" \in req[r].regCalls
                                       /\ ~req[r].addOk
      ]_vars

\* C16: no two distinct projects have the same customDomain.
C16_UniqueCustomDomain ==
    \A p, q \in ProjectIds :
        (/\ p # q
         /\ projects[p].exists
         /\ projects[q].exists
         /\ ~NoCustomDomain(projects[p]))
            => projects[p].customDomain # projects[q].customDomain

\* C17: no step leaves two distinct projects with the same subdomain, and a
\* project is inserted only when no project has its subdomain.
C17_UniqueSubdomain ==
    [][/\ \A p, q \in ProjectIds :
             (p # q /\ projects'[p].exists /\ projects'[q].exists)
                 => projects'[p].subdomain # projects'[q].subdomain
       /\ \A p \in ProjectIds :
             (~projects[p].exists /\ projects'[p].exists)
                 => ~existsSubdomain(projects, projects'[p].subdomain, 0)
      ]_vars

\* C17 witness: a project creation has passed every existence check and is
\* about to insert a subdomain that a concurrent creation inserted meanwhile.
C17_Witness ==
    \E r \in Reqs :
        /\ req[r].kind = "create"
        /\ req[r].pc = "cInsert"
        /\ existsSubdomain(projects, newProject(req[r]).subdomain, 0)

C19_CheckNotFoundIsNegative ==
    \A r \in Reqs :
        (req[r].kind = "verify" /\ "check" \in req[r].regCalls)
            => /\ (req[r].chk.status = 404)
                     => /\ ~req[r].chk.threw
                        /\ ~req[r].chk.verified
                        /\ req[r].chk.verification = << >>
                        /\ ~req[r].chk.usingVercelDNS
                        /\ ~req[r].chk.misconfigured
               /\ (req[r].chk.status \notin {200, 404})
                     => /\ req[r].chk.threw
                        /\ req[r].pc = "done"
                        /\ req[r].code # 200

\* C19 witness: a Verify was answered 200 after its check met a registrar
\* 404.
C19_Witness ==
    \E r \in Reqs :
        /\ Answered(r, "verify")
        /\ req[r].chk.status = 404
        /\ req[r].code = 200

\* C20: a check whose nameserver lookup fails returns normally with
\* usingVercelDNS false and the verified flag of the registrar; and a Verify
\* answered 200 after such a check leaves the status added.
C20_DnsFailureFailsClosed ==
    [][\A r \in Reqs :
          /\ (/\ StepOf(r, "verify")
              /\ req[r].pc = "vCheck"
              /\ req'[r].chk.status = 200
              /\ ~dnsAnswer(req[r].domain).ok)
                 => /\ ~req'[r].chk.threw
                    /\ ~req'[r].chk.usingVercelDNS
                    /\ req'[r].chk.verified
                          = (registrar[toLowerCase(req[r].domain)] = "verified")
                    /\ req'[r].pc = "vUpd"
          /\ (/\ StepOf(r, "verify")
              /\ req[r].pc = "vUpd"
              /\ req'[r].code = 200
              /\ req[r].chk.status = 200
              /\ ~req[r].ans.ok)
                 => projects'[req[r].pid].domainStatus = "added"
      ]_vars

\* C20 witness: a Verify of a name the registrar reports verified, whose
\* nameserver lookup failed, was answered 200 and left status added.
C20_Witness ==
    \E r \in Reqs :
        /\ Answered(r, "verify")
        /\ req[r].code = 200
        /\ req[r].chk.verified
        /\ ~req[r].ans.ok
        /\ req[r].post.domainStatus = "added"

\* C21: a Verify whose registrar call fails for a reason other than the
\* name not being found (the trigger fails for a name the registrar holds,
\* or the status check throws) is answered with a 5xx status, and the step
\* leaves the store as it was.
C21_RegistrarFailureIs5xx ==
    [][\A r \in Reqs :
          (/\ StepOf(r, "verify")
           /\ req'[r].pc = "done"
           /\ \/ req[r].pc = "vTrigger" /\ regHas(registrar, req[r].domain)
              \/ req[r].pc = "vCheck" /\ req'[r].chk.threw)
              => /\ req'[r].code >= 500
                 /\ projects' = projects
      ]_vars

\* C22: a Remove(P, D) that repeats a Remove(P, D) stopped after its
\* registrar removal succeeded and before the local update, with nothing
\* else happening meanwhile, is not refused because the registrar no
\* longer holds D; answered 200, it leaves the project without a custom
\* domain and with status verified.
C22_RemoveRetryCompletes ==
    \A r \in Reqs :
        (/\ Answered(r, "remove")
         /\ req[r].follows = "retry"
         /\ Quiet(r))
            => /\ req[r].msg # MsgNotFound
               /\ (req[r].code = 200)
                     => /\ NoCustomDomain(req[r].post)
                        /\ req[r].post.domainStatus = "verified"

\* the Remove of slot r was stopped by a failure of its own: a registrar
\* call without a response, or the store refusing the update
FreshFailure(r) ==
    req[r].msg \in {"Failed to remove domain", "An unexpected error occurred"}

\* C23: a Remove(P, D) of a project whose customDomain is D and whose
\* status is failed, with nothing else happening meanwhile and no failure
\* of its own, is answered 200 and leaves the project without a custom
\* domain and with status verified.
C23_RemoveFromFailed ==
    \A r \in Reqs :
        (/\ Answered(r, "remove")
         /\ req[r].snap.exists
         /\ req[r].snap.customDomain = req[r].domain
         /\ req[r].snap.domainStatus = "failed"
         /\ Quiet(r)
         /\ ~FreshFailure(r))
            => /\ req[r].code = 200
               /\ NoCustomDomain(req[r].post)
               /\ req[r].post.domainStatus = "verified"

\* the probe answered { success: true, available: true }
ProbeAvailable(q) ==
    q.kind = "probe" /\ q.pc = "done" /\ q.code = 200
        /\ q.msg = "Domain is available"

\* some project claims the domain
ClaimedLocally(domain) ==
    \E p \in ProjectIds :
        projects[p].exists /\ projects[p].customDomain = toLowerCase(domain)

\* C24: no step of an availability probe changes the store, the registrar
\* or the delegation; a probe answers available = true only from its
\* registrar check, for a valid domain that the registrar does not hold
\* and, the environment not having moved since the probe started, that no
\* project claims; the registrar is asked only about a valid domain that no
\* project claimed when the store was asked.
C24_ProbeReadOnly ==
    [][\A r \in Reqs :
          StepOf(r, "probe") =>
              /\ UNCHANGED <<projects, nextId, registrar, dns>>
              /\ ProbeAvailable(req'[r])
                    => /\ req[r].pc = "pReg"
                       /\ validateDomain(req[r].domain).isValid
                       /\ ~regHas(registrar, req[r].domain)
                       /\ (req[r].e0 = envEpoch)
                             => ~ClaimedLocally(req[r].domain)
              /\ (req'[r].pc = "pReg")
                    => /\ req[r].pc = "pLocal"
                       /\ validateDomain(req[r].domain).isValid
                       /\ ~ClaimedLocally(req[r].domain)
      ]_vars

\* C24 witness: with a project in the store, a probe that asked the
\* registrar was answered available = true.
C24_Witness ==
    \E r \in Reqs :
        /\ ProbeAvailable(req[r])
        /\ "get" \in req[r].regCalls
        /\ \E p \in ProjectIds : projects[p].exists

\* what a probe shows of the validator's answer for its domain: the error
\* it answered with, or "valid" once it went on to the store
Verdict(q) ==
    IF q.kind # "probe" \/ q.domain = NoStr THEN "none"
    ELSE IF q.pc \in {"pLocal", "pReg"} \/ "get" \in q.regCalls THEN "valid"
    ELSE IF q.pc = "done" /\ q.code = 200
                /\ q.msg # "Domain is already in use by another project"
    THEN q.msg
    ELSE "none"

\* empty or whitespace only
Blank(d) == \A i \in DOMAIN d : d[i] = " "

\* DNS label syntax: dot-separated labels of 1 to 63 letters, digits and
\* hyphens, none starting or ending with a hyphen
WellFormed(d) ==
    \A l \in Range(split(d, ".")) :
        /\ Len(l) \in 1..(MaxLabelInner + 2)
        /\ \A i \in DOMAIN l : IsUpper(l[i]) \/ IsLower(l[i]) \/ IsDigit(l[i])
                                  \/ l[i] = "-"
        /\ l[1] # "-"
        /\ l[Len(l)] # "-"

\* the last label, lowercased
LastLabel(d) ==
    LET ls == split(toLowerCase(d), ".") IN ls[Len(ls)]

\* the lowercased name or its lowercased last label is a denylist entry
Denylisted(d) ==
    toLowerCase(d) \in reservedDomains \/ LastLabel(d) \in reservedDomains

\* C25: the validator fails a blank domain as required, a domain that is
\* not of DNS label syntax as of invalid format, a well-formed domain longer
\* than 253 characters as too long, a well-formed denylisted domain of at
\* most 253 characters as reserved, and accepts every well-formed domain of
\* at most 253 characters that is not denylisted.
C25_ValidateTags ==
    \A r \in Reqs :
        LET d == req[r].domain
            v == Verdict(req[r])
        IN  v # "none" =>
                /\ Blank(d) => v = ErrRequired
                /\ (~Blank(d) /\ ~WellFormed(d)) => v = ErrFormat
                /\ (WellFormed(d) /\ Len(d) > MaxDomainLength) => v = ErrTooLong
                /\ (WellFormed(d) /\ Len(d) <= MaxDomainLength /\ Denylisted(d))
                      => v \in {ErrReserved, ErrReservedTld}
                /\ (WellFormed(d) /\ Len(d) <= MaxDomainLength /\ ~Denylisted(d))
                      => v = "valid"

\* C25 witness: a probe of a well-formed domain of more than 253 characters
\* was answered "Domain is too long".
C25_Witness ==
    \E r \in Reqs :
        /\ Verdict(req[r]) = ErrTooLong
        /\ WellFormed(req[r].domain)
        /\ Len(req[r].domain) = MaxDomainLength + 1

\* the lowercased name is a name under a denylist entry of several labels
UnderDenylisted(d) ==
    \E e \in reservedDomains :
        /\ "." \in Range(e)
        /\ Len(d) > Len(e) + 1
        /\ SubSeq(toLowerCase(d), Len(d) - Len(e), Len(d)) = <<".">> \o e

\* C26: a well-formed domain of at most 253 characters is rejected as
\* reserved if and only if its lowercased name or its lowercased last label
\* is a denylist entry, whatever the case it is written in; a name under a
\* denylist entry of several labels whose last label is not denylisted is
\* accepted.
C26_ReservedExact ==
    \A r \in Reqs :
        LET d == req[r].domain
            v == Verdict(req[r])
        IN  (v # "none" /\ WellFormed(d) /\ Len(d) <= MaxDomainLength) =>
                /\ (v \in {ErrReserved, ErrReservedTld})
                      <=> \/ toLowerCase(d) \in reservedDomains
                          \/ LastLabel(d) \in reservedDomains
                /\ (v # "valid") => v \in {ErrReserved, ErrReservedTld}
                /\ (UnderDenylisted(d) /\ LastLabel(d) \notin reservedDomains)
                      => v = "valid"

\* C26 witness: a probe of a name written with capitals under a denylist
\* entry of several labels went on past the validator.
C26_Witness ==
    \E r \in Reqs :
        /\ Verdict(req[r]) = "valid"
        /\ UnderDenylisted(req[r].domain)
        /\ req[r].domain # toLowerCase(req[r].domain)

\* C27: getDomainSetupInfo does not raise, and whatever the domain and
\* whether its fetch from the registrar succeeded or failed, the records it
\* returns are the same two nameserver records.
C27_SetupRecordsConstant ==
    \A r \in Reqs :
        req[r].setup.called =>
            /\ ~req[r].setup.threw
            /\ Len(req[r].setup.dnsRecords) = 2
            /\ req[r].setup.dnsRecords = setupNameservers
            /\ req[r].setup.dnsRecords = fallbackNameservers
            /\ \A i \in 1..2 : req[r].setup.dnsRecords[i].type = "NS"

\* C27 witness: a project creation was answered with the setup records
\* after the fetch of its domain from the registrar had failed.
C27_Witness ==
    \E r \in Reqs :
        /\ Answered(r, "create")
        /\ req[r].code = 201
        /\ req[r].setup.called
        /\ ~req[r].setup.fetched

\* a required field of the request is missing
MissingField(q) ==
    q.domain = NoStr \/ (q.kind \in {"attach", "verify"} /\ q.pid = NoPid)

\* a registrar call of the answered request failed
RegistrarFailed(q) ==
    \/ q.kind = "attach" /\ (q.avail.threw \/ ("add" \in q.regCalls /\ ~q.addOk))
    \/ q.kind = "verify" /\ (q.chk.threw \/ q.regCalls = {"verify"})
    \/ q.kind = "remove" /\ "delete" \in q.regCalls /\ ~q.removeOk

\* the request was not answered 200 after all its registrar calls succeeded
PersistenceFailed(q) ==
    /\ q.code # 200
    /\ \/ q.kind = "attach" /\ "add" \in q.regCalls /\ q.addOk
       \/ q.kind = "verify" /\ "check" \in q.regCalls /\ ~q.chk.threw
       \/ q.kind = "remove" /\ "delete" \in q.regCalls /\ q.removeOk

\* the Attach was stopped because a project or the registrar holds the name
Collision(q) ==
    /\ q.kind = "attach"
    /\ q.snap.exists
    /\ validateDomain(q.domain).isValid
    /\ \/ q.regCalls = {}
       \/ q.regCalls = {"get"} /\ q.avail.status = 200

\* C28: an answered Attach, Verify or Remove carries 400 when a field is
\* missing, the domain is invalid or it is not the project's custom domain,
\* 404 when the project is unknown, 409 when a project or the registrar
\* already holds the domain, 500 when a registrar call or the store failed;
\* and every answer with an error status has an error tag and a message.
C28_StatusByCategory ==
    \A r \in Reqs :
        LET q == req[r]
        IN  (q.pc = "done" /\ q.kind \in {"attach", "verify", "remove"}) =>
                /\ MissingField(q) => q.code = 400
                /\ (~MissingField(q) /\ ~q.snap.exists) => q.code = 404
                /\ (q.kind = "attach" /\ q.snap.exists
                        /\ ~validateDomain(q.domain).isValid) => q.code = 400
                /\ (q.kind \in {"verify", "remove"} /\ q.snap.exists
                        /\ q.snap.customDomain # q.domain) => q.code = 400
                /\ Collision(q) => q.code = 409
                /\ RegistrarFailed(q) => q.code = 500
                /\ PersistenceFailed(q) => q.code = 500
                /\ (q.code >= 400) => (q.err # "" /\ q.msg # "")

\* C29: a Verify(P, D) of a project in the state a successful Attach of D
\* leaves (customDomain = D, the status Attach writes), made while the
\* registrar reports D verified and D's nameservers are the provider's (the
\* environment has not moved since the request started), is not refused as
\* not ready, and answered 200 it leaves the status verified.
C29_VerifyAfterAttach ==
    \A r \in Reqs :
        (/\ Answered(r, "verify")
         /\ req[r].snap.exists
         /\ req[r].snap.customDomain = req[r].domain
         /\ req[r].snap.domainStatus = AttachStatus
         /\ req[r].e0 = envEpoch
         /\ req[r].e1 = envEpoch
         /\ regHas(registrar, req[r].domain)
         /\ registrar[toLowerCase(req[r].domain)] = "verified"
         /\ OnlyProviderNameservers(dnsAnswer(req[r].domain)))
            => /\ req[r].err # "Domain not ready for verification"
               /\ (req[r].code = 200) => req[r].post.domainStatus = "verified"

\* C30: a step that leaves a project with a custom domain D and status
\* verified, and changes the project, is the update of a Verify of D whose
\* check returned verified and usingVercelDNS; and a Verify writes its
\* status only to a project whose customDomain is the domain it checked.
C30_VerifiedOnlyByCheck ==
    [][/\ \A p \in ProjectIds :
              (/\ projects'[p] # projects[p]
               /\ projects'[p].exists
               /\ ~NoCustomDomain(projects'[p])
               /\ projects'[p].domainStatus = "verified")
                  => \E r \in Reqs :
                         /\ req[r].kind = "verify"
                         /\ req[r].pc = "vUpd"
                         /\ req'[r].pc = "done"
                         /\ req[r].pid = p
                         /\ req[r].domain = projects'[p].customDomain
                         /\ req[r].chk.verified
                         /\ req[r].chk.usingVercelDNS
       /\ \A r \in Reqs :
              (/\ StepOf(r, "verify")
               /\ req[r].pc = "vUpd"
               /\ req'[r].code = 200)
                  => projects[req[r].pid].customDomain = req[r].domain
      ]_vars

Orphans ==
    {n \in RegNames : registrar[n] # "absent" /\ ~ClaimedLocally(n)}

\* the same, in the next state
OrphansNext ==
    {n \in RegNames :
        /\ registrar'[n] # "absent"
        /\ ~\E p \in ProjectIds :
               projects'[p].exists /\ projects'[p].customDomain = n}

\* the answer of a request stopped by the store
StoreFailure(q) ==
    q.msg \in {"An unexpected error occurred",
               "Could not update project with custom domain",
               "Could not update project after removing custom domain",
               "Could not update project domain status"}

\* C32: the step that answers a request none of whose store updates failed
\* leaves no name at the registrar without a project claiming it, other
\* than the names that were so before the step.
C32_NoOrphanedDomain ==
    [][\A r \in Reqs :
          (/\ req'[r] # req[r]
           /\ req'[r].pc = "done"
           /\ req'[r].kind \in {"create", "attach", "verify", "remove"}
           /\ ~StoreFailure(req'[r]))
              => OrphansNext \subseteq Orphans
      ]_vars

\* slots a and b hold answered Attach requests for the same domain on two
\* distinct projects, neither of which claimed the domain beforehand
AttachPair(a, b) ==
    /\ a # b
    /\ Answered(a, "attach")
    /\ Answered(b, "attach")
    /\ req[a].domain = req[b].domain
    /\ req[a].pid # req[b].pid
    /\ req[a].snap.exists
    /\ req[b].snap.exists
    /\ req[a].snap.customDomain # toLowerCase(req[a].domain)
    /\ req[b].snap.customDomain # toLowerCase(req[b].domain)

ClaimsWhatCreateAsks(p, q) ==
    /\ p # q.pid
    /\ projects[p].exists
    /\ \/ projects[p].subdomain = toLowerCase(trim(sanitizeSubdomain(q.name)))
       \/ (q.useCustom /\ q.domain # NoStr
              /\ projects[p].customDomain = toLowerCase(trim(q.domain)))

\* C34: a project creation answered after its addDomain call failed, the
\* environment not having moved, leaves its document stored with status
\* failed, its subdomain and its customDomain; and a creation answered
\* while a failed project claims the subdomain or the custom domain it asks
\* for is refused and stores no document.
C34_FailedProjectKeepsClaims ==
    \A r \in Reqs :
        /\ (/\ Answered(r, "create")
            /\ "add" \in req[r].regCalls
            /\ ~req[r].addOk
            /\ Quiet(r))
               => /\ req[r].code = 500
                  /\ req[r].post.exists
                  /\ req[r].post.domainStatus = "failed"
                  /\ req[r].post.subdomain
                        = toLowerCase(trim(sanitizeSubdomain(req[r].name)))
                  /\ req[r].post.customDomain = toLowerCase(trim(req[r].domain))
        /\ (/\ Answered(r, "create")
            /\ \E p \in ProjectIds :
                   /\ ClaimsWhatCreateAsks(p, req[r])
                   /\ projects[p].domainStatus = "failed")
               => /\ req[r].code \in {400, 409}
                  /\ req[r].pid = NoPid

\* C34 witness: a creation was answered 409 for a custom domain claimed by
\* a failed project that has another subdomain.
C34_Witness ==
    \E r \in Reqs :
        /\ Answered(r, "create")
        /\ req[r].code = 409
        /\ \E p \in ProjectIds :
               /\ ClaimsWhatCreateAsks(p, req[r])
               /\ projects[p].domainStatus = "failed"
               /\ projects[p].subdomain
                     # toLowerCase(trim(sanitizeSubdomain(req[r].name)))

\* C35: in every state the customDomain of every stored project is a
\* domain that validateDomain accepts, and so is every name a request has
\* asked the registrar to add.
C35_StoredDomainsValid ==
    /\ \A p \in ProjectIds :
           (projects[p].exists /\ ~NoCustomDomain(projects[p]))
               => validateDomain(projects[p].customDomain).isValid
    /\ \A r \in Reqs :
           ("add" \in req[r].regCalls)
               => validateDomain(req[r].domain).isValid

\* C36: a Verify or Remove of project P carrying the domain string D, that
\* directly follows an Attach of the same string D to P answered 200 with
\* the registrar and the projects untouched by others since, is not answered
\* with the domain-mismatch error.
C36_DomainRoundTrip ==
    \A r \in Reqs :
        (/\ req[r].pc = "done"
         /\ req[r].kind \in {"verify", "remove"}
         /\ req[r].follows = "attached"
         /\ req[r].snap.exists)
            => req[r].err # "Domain mismatch"

\* C37: a Verify carrying a domain string that differs from the customDomain
\* of the project it read, whatever that project's domainStatus, is answered
\* 400 "Domain mismatch" with the mismatch message in that step, has made no
\* registrar call, and leaves the project document as it was read.
C37_VerifyMismatchFirst ==
    \A r \in Reqs :
        (req[r].kind = "verify" /\ req[r].snap.exists
            /\ req[r].snap.customDomain # req[r].domain)
            => /\ req[r].pc = "done"
               /\ req[r].code = 400
               /\ req[r].err = "Domain mismatch"
               /\ req[r].msg = "The provided domain does not match the project's custom domain"
               /\ req[r].regCalls = {}
               /\ req[r].post = req[r].snap

\* C37 witness: a Verify with another domain on a project whose status is
\* not added was answered "Domain mismatch", not "not ready".
C37_Witness ==
    \E r \in Reqs :
        /\ Answered(r, "verify")
        /\ req[r].snap.exists
        /\ req[r].snap.customDomain # req[r].domain
        /\ req[r].snap.domainStatus # "added"
        /\ req[r].err = "Domain mismatch"
        /\ req[r].regCalls = {}
        /\ req[r].post = req[r].snap

====
